---- MODULE Spec2Model ----
(***************************************************************************)
(* Model of healthplan-navigator: the Plan data model, the six-metric      *)
(* scorer (HealthPlanScorer), the ranking engine (AnalysisEngine), the     *)
(* orchestrator (HealthPlanAnalyzer.analyze) and the JSON export / JSON    *)
(* ingestion path.                                                         *)
(*                                                                         *)
(* Numbers.  Money is in whole currency units.  A score is an exact        *)
(* rational [n, d] in lowest terms (d > 0); weighted_total_score is kept   *)
(* in hundredths (the code rounds it to 2 decimals).  plan_rating is kept  *)
(* in tenths of a star.  An Optional value is <<>> (None) or <<v>>.        *)
(***************************************************************************)
EXTENDS Integers, Sequences, FiniteSets, TLC

VARIABLES
    pc,               \* position of the running call
    client,           \* the Client handed to analyze / analyze_plans
    plan_sources,     \* analyze(): what each plan source yields when parsed
    hc_plans,         \* analyze(): <<>> (no fetch) or <<list>> fetched plans
    plans,            \* analyze_plans(): the plans argument
    i,                \* analyze_plans(): index of the next plan to score
    plan_analyses,    \* analyze_plans(): the local list being built
    report,           \* <<>> or <<AnalysisReport>>
    error,            \* <<>> or <<exception raised to the caller>>
    export_data,      \* <<>> or <<the object generate_json_export dumps>>
    reparsed,         \* <<>> or <<parse_json result per exported plan>>
    kwargs,           \* Plan(...), PersonalInfo(...): the keyword arguments
    built,            \* <<>> or <<the constructed Plan or PersonalInfo>>
    files,            \* the files of the directory, in the order glob yields
                      \* them; the one file of a single-file call
    parsed,           \* parse_batch / parse_csv: the local list plans;
                      \* parse_document: <<>> (None) or <<the Plan>>
    rendered          \* <<>> or <<what the report renderers returned>>

vars == <<pc, client, plan_sources, hc_plans, plans, i, plan_analyses, report,
          error, export_data, reparsed, kwargs, built, files, parsed, rendered>>

(***************************************************************************)
(* Bounds of the explored inputs.                                          *)
(***************************************************************************)
MaxPlans == 4
MaxProviders == 6
MaxMeds == 2
MaxSources == 2
MaxZipLen == 6
MaxRows == 3
MaxTokens == 3
MaxFiles == 3

None == <<>>
Some(v) == <<v>>

Max(a, b) == IF a >= b THEN a ELSE b
Min(a, b) == IF a <= b THEN a ELSE b

RECURSIVE GCD(_, _)
GCD(a, b) == IF b = 0 THEN a ELSE GCD(b, a % b)

\* A rational in lowest terms; d > 0, n >= 0.
Rat(n, d) == LET g == GCD(n, d) IN [n |-> n \div g, d |-> d \div g]

RatLess(x, y) == x.n * y.d < y.n * x.d

\* max(0, min(10, n/d)) for a possibly negative numerator
Clamp10(n, d) == IF n < 0 THEN Rat(0, 1)
                 ELSE IF n > 10 * d THEN Rat(10, 1)
                 ELSE Rat(n, d)

SeqsUpTo(S, n) == UNION {[1..k -> S] : k \in 0..n}

\* {} : a dict with no key
EmptyDict == [k \in {} |-> k]

\* dict.get(key, default)
Get(dict, key, default) == IF key \in DOMAIN dict THEN dict[key] ELSE default

\* str.lower() on the strings the model uses
Lower(s) ==
    CASE s = "Primary Care" -> "primary care"
      [] s = "Family Medicine" -> "family medicine"
      [] s = "Internal Medicine" -> "internal medicine"
      [] s = "Cardiology" -> "cardiology"
      [] s = "Bronze" -> "bronze"
      [] s = "Silver" -> "silver"
      [] s = "Gold" -> "gold"
      [] s = "Platinum" -> "platinum"
      [] s = "Catastrophic" -> "catastrophic"
      [] s = ".PDF" -> ".pdf"
      [] s = ".Docx" -> ".docx"
      [] s = ".JSON" -> ".json"
      [] s = ".Csv" -> ".csv"
      [] s = ".TXT" -> ".txt"
      [] s = "True" -> "true"
      [] s = "Deductible" -> "deductible"
      [] s = "Deductible:" -> "deductible:"
      [] s = "Individual" -> "individual"
      [] s = "Monthly" -> "monthly"
      [] s = "Out-of-pocket" -> "out-of-pocket"
      [] s = "Plan" -> "plan"
      [] s = "ID:" -> "id:"
      [] s = "ID" -> "id"
      [] s = "PCP" -> "pcp"
      [] s = "Specialist" -> "specialist"
      [] s = "Referral" -> "referral"
      [] s = "Prior" -> "prior"
      [] s = "Was" -> "was"
      [] s = "Gold_Ambetter_2025" -> "gold_ambetter_2025"
      [] s = "UP" -> "up"
      [] OTHER -> s

(***************************************************************************)
(* models.py: enums and the Plan dataclass                                 *)
(***************************************************************************)
MetalLevel == {"BRONZE", "SILVER", "GOLD", "PLATINUM", "CATASTROPHIC"}

\* MetalLevel.<X>.value
MetalLevelValue(m) ==
    CASE m = "BRONZE" -> "Bronze"
      [] m = "SILVER" -> "Silver"
      [] m = "GOLD" -> "Gold"
      [] m = "PLATINUM" -> "Platinum"
      [] m = "CATASTROPHIC" -> "Catastrophic"

TieredOrCovered == {"COVERED", "TIER1", "TIER2", "TIER3", "TIER4"}
CoverageStatus == TieredOrCovered \cup {"NOT"}

CostSharing == [primary_care_copay |-> 0, specialist_copay |-> 0]

Administrative == [prior_auth_common |-> FALSE, uses_maximizer |-> FALSE,
                   plan_rating |-> 30]

\* The dataclass defaults of Plan, for the fields the model keeps.
PlanDefaults ==
    [plan_id |-> "", marketing_name |-> "", metal_level |-> "SILVER",
     monthly_premium |-> 0,
     deductible |-> 0, deductible_individual |-> None,
     oop_max |-> 0, oop_max_individual |-> None,
     copay_primary |-> 0, copay_specialist |-> 0,
     requires_referrals |-> FALSE,
     network |-> EmptyDict, formulary |-> EmptyDict,
     cost_sharing |-> CostSharing, administrative |-> Administrative]

\* Plan.__post_init__ with the legacy value always taken when present
PostInitLegacyWins(p) ==
    LET d == IF p.deductible_individual # None
             THEN p.deductible_individual[1] ELSE p.deductible
        o == IF p.oop_max_individual # None
             THEN p.oop_max_individual[1] ELSE p.oop_max
    IN [p EXCEPT !.deductible = d, !.oop_max = o]

\* Plan.__post_init__
PostInit(p) ==
    LET d == IF p.deductible_individual # None /\ p.deductible = 0
             THEN p.deductible_individual[1] ELSE p.deductible
        o == IF p.oop_max_individual # None /\ p.oop_max = 0
             THEN p.oop_max_individual[1] ELSE p.oop_max
    IN [p EXCEPT !.deductible = d, !.oop_max = o]

\* Plan(**kw): the generated __init__ assigns the given fields over the
\* defaults, then runs __post_init__.
Plan(kw) ==
    PostInit([f \in DOMAIN PlanDefaults |->
                 IF f \in DOMAIN kw THEN kw[f] ELSE PlanDefaults[f]])

(***************************************************************************)
(* models.py: validate_zipcode and the PersonalInfo dataclass.  A ZIP code *)
(* string is the sequence of its characters.                               *)
(***************************************************************************)
Digits == {"0", "1", "2", "3", "4", "5", "6", "7", "8", "9"}

\* re.sub(r'[^0-9]', '', str(zipcode))
DigitsOnly(zipcode) == SelectSeq(zipcode, LAMBDA ch : ch \in Digits)

\* validate_zipcode returning every digit of a long input
ValidateZipcodeWhole(zipcode) ==
    IF zipcode = <<>>
    THEN [ok |-> FALSE, error |-> "ValueError: ZIP code is required"]
    ELSE LET digits_only == DigitsOnly(zipcode)
         IN IF Len(digits_only) >= 5
            THEN [ok |-> TRUE, value |-> digits_only]
            ELSE [ok |-> FALSE, error |-> "ValueError: Invalid ZIP code format"]

\* validate_zipcode: [ok |-> TRUE, value |-> the ZIP] or, for a raise,
\* [ok |-> FALSE, error |-> the ValueError]
ValidateZipcode(zipcode) ==
    IF zipcode = <<>>
    THEN [ok |-> FALSE, error |-> "ValueError: ZIP code is required"]
    ELSE LET digits_only == DigitsOnly(zipcode)
         IN IF Len(digits_only) = 5
            THEN [ok |-> TRUE, value |-> digits_only]
            ELSE IF Len(digits_only) >= 5
            THEN [ok |-> TRUE, value |-> SubSeq(digits_only, 1, 5)]
            ELSE [ok |-> FALSE, error |-> "ValueError: Invalid ZIP code format"]

\* PersonalInfo(**kw): the generated __init__ and __post_init__, which
\* validates the ZIP first, then household_size, then annual_income
PersonalInfo(kw) ==
    LET z == ValidateZipcode(kw.zipcode)
    IN IF ~z.ok THEN z
       ELSE IF kw.household_size < 1
       THEN [ok |-> FALSE,
             error |-> "ValueError: Household size must be at least 1"]
       ELSE IF kw.annual_income < 0
       THEN [ok |-> FALSE,
             error |-> "ValueError: Annual income cannot be negative"]
       ELSE [ok |-> TRUE,
             value |-> [full_name |-> kw.full_name, zipcode |-> z.value,
                        household_size |-> kw.household_size,
                        annual_income |-> kw.annual_income]]

(***************************************************************************)
(* score.py: HealthPlanScorer                                              *)
(***************************************************************************)
\* WEIGHTS, in hundredths
WEIGHTS ==
    [provider_network |-> 30, medication_coverage |-> 25, total_cost |-> 20,
     financial_protection |-> 10, administrative_simplicity |-> 10,
     plan_quality |-> 5]

\* _score_provider_network counting every provider, not only must-keep ones
ProviderNetworkAllProviders(c, plan) ==
    LET ps == c.medical_profile.providers
        cnt == Cardinality({k \in DOMAIN ps :
                   Get(plan.network, ps[k].name, "OUT") = "IN"})
        n == Len(ps)
        score == IF n = 0 THEN 10
                 ELSE IF cnt = n THEN 10
                 ELSE IF 10 * cnt >= 8 * n THEN 7
                 ELSE IF 10 * cnt >= 5 * n THEN 4
                 ELSE 0
    IN Rat(IF plan.requires_referrals THEN Max(0, score - 2) ELSE score, 1)

\* _score_provider_network
ScoreProviderNetwork(c, plan) ==
    LET must_keep_providers ==
            SelectSeq(c.medical_profile.providers,
                      LAMBDA p : p.priority = "MUST_KEEP")
        in_network_count ==
            Cardinality({k \in DOMAIN must_keep_providers :
                Get(plan.network, must_keep_providers[k].name, "OUT") = "IN"})
        n == Len(must_keep_providers)
        \* coverage_ratio = in_network_count / n, compared without dividing
        score == IF n = 0 THEN 10
                 ELSE IF in_network_count = n THEN 10
                 ELSE IF 10 * in_network_count >= 8 * n THEN 7
                 ELSE IF 10 * in_network_count >= 5 * n THEN 4
                 ELSE 0
    IN Rat(IF plan.requires_referrals THEN Max(0, score - 2) ELSE score, 1)

\* manufacturer_program and manufacturer_program.exists
HasProgram(m) ==
    m.manufacturer_program # None /\ m.manufacturer_program[1].exists

\* the per-medication coverage value of _score_medication_coverage
MedScore(m, plan) ==
    LET coverage == Get(plan.formulary, m.name, "NOT")
    IN IF coverage \in TieredOrCovered THEN 10
       ELSE IF coverage = "NOT" THEN (IF HasProgram(m) THEN 6 ELSE 0)
       ELSE 0

RECURSIVE SumMedScores(_, _)
SumMedScores(meds, plan) ==
    IF meds = <<>> THEN 0
    ELSE MedScore(Head(meds), plan) + SumMedScores(Tail(meds), plan)

\* _score_medication_coverage without the final clamp
MedicationCoverageUnclamped(c, plan) ==
    LET meds == c.medical_profile.medications
        n == Len(meds)
        adj == (IF ~plan.administrative.prior_auth_common THEN 2 ELSE 0)
               - (IF plan.administrative.uses_maximizer THEN 3 ELSE 0)
        num == SumMedScores(meds, plan) + adj * n
    IN IF n = 0 THEN Rat(10, 1)
       ELSE IF num < 0 THEN [n |-> num, d |-> n] ELSE Rat(num, n)

\* _score_medication_coverage applying the adjustments to a client without
\* medications too
MedicationCoverageEmptyAdjusted(c, plan) ==
    LET meds == c.medical_profile.medications
        n == Len(meds)
        adj == (IF ~plan.administrative.prior_auth_common THEN 2 ELSE 0)
               - (IF plan.administrative.uses_maximizer THEN 3 ELSE 0)
    IN IF n = 0 THEN Clamp10(10 + adj, 1)
       ELSE Clamp10(SumMedScores(meds, plan) + adj * n, n)

\* _score_medication_coverage
ScoreMedicationCoverage(c, plan) ==
    LET meds == c.medical_profile.medications
        n == Len(meds)
        adj == (IF ~plan.administrative.prior_auth_common THEN 2 ELSE 0)
               - (IF plan.administrative.uses_maximizer THEN 3 ELSE 0)
    IN IF n = 0 THEN Rat(10, 1)
       ELSE Clamp10(SumMedScores(meds, plan) + adj * n, n)

RECURSIVE VisitCosts(_, _)
VisitCosts(providers, plan) ==
    IF providers = <<>> THEN 0
    ELSE LET p == Head(providers)
             copay == IF Lower(p.specialty) \in
                          {"primary care", "family medicine", "internal medicine"}
                      THEN plan.cost_sharing.primary_care_copay
                      ELSE plan.cost_sharing.specialist_copay
         IN p.visit_frequency * copay + VisitCosts(Tail(providers), plan)

\* expected_copay or 0
CopayOrZero(prog) == IF prog.expected_copay = None THEN 0 ELSE prog.expected_copay[1]

MedCost(m, plan) ==
    IF HasProgram(m)
    THEN m.annual_doses * CopayOrZero(m.manufacturer_program[1])
    ELSE LET coverage == Get(plan.formulary, m.name, "NOT")
         IN m.annual_doses *
            (CASE coverage = "TIER1" -> 10
               [] coverage = "TIER2" -> 50
               [] coverage = "TIER3" -> 100
               [] coverage = "TIER4" -> 300
               [] OTHER -> 500)

RECURSIVE MedicationCosts(_, _)
MedicationCosts(meds, plan) ==
    IF meds = <<>> THEN 0
    ELSE MedCost(Head(meds), plan) + MedicationCosts(Tail(meds), plan)

\* _calculate_annual_cost without the cap at oop_max plus premiums
CalculateAnnualCostUncapped(c, plan) ==
    plan.monthly_premium * 12 + plan.deductible
    + VisitCosts(c.medical_profile.providers, plan)
    + MedicationCosts(c.medical_profile.medications, plan)
    + 1000

\* _calculate_annual_cost
CalculateAnnualCost(c, plan) ==
    LET annual_premium == plan.monthly_premium * 12
        total_cost == annual_premium + plan.deductible
                      + VisitCosts(c.medical_profile.providers, plan)
                      + MedicationCosts(c.medical_profile.medications, plan)
                      + 1000
    IN Min(total_cost, plan.oop_max + annual_premium)

SeqMin(s) == CHOOSE x \in {s[k] : k \in DOMAIN s} :
                 \A y \in {s[k] : k \in DOMAIN s} : x <= y
SeqMax(s) == CHOOSE x \in {s[k] : k \in DOMAIN s} :
                 \A y \in {s[k] : k \in DOMAIN s} : x >= y

\* _score_total_cost normalising against the cheapest plan only
TotalCostNoMax(estimated_cost, all_plans, c) ==
    LET all_costs == [k \in DOMAIN all_plans |-> CalculateAnnualCost(c, all_plans[k])]
        min_cost == SeqMin(all_costs)
    IN IF estimated_cost = min_cost THEN Rat(10, 1)
       ELSE Clamp10(10 * min_cost, estimated_cost)

\* _score_total_cost
ScoreTotalCost(estimated_cost, all_plans, c) ==
    LET all_costs == [k \in DOMAIN all_plans |-> CalculateAnnualCost(c, all_plans[k])]
        min_cost == SeqMin(all_costs)
        max_cost == SeqMax(all_costs)
    IN IF max_cost = min_cost THEN Rat(10, 1)
       ELSE Clamp10(10 * (max_cost - estimated_cost), max_cost - min_cost)

\* _score_financial_protection granting a tier when either bound holds
FinancialProtectionEitherBound(plan) ==
    LET deductible == plan.deductible
        oopm == plan.oop_max
    IN IF deductible <= 500 \/ oopm <= 3000 THEN Rat(10, 1)
       ELSE IF deductible <= 1000 \/ oopm <= 5000 THEN Rat(7, 1)
       ELSE IF deductible <= 2000 \/ oopm <= 7000 THEN Rat(4, 1)
       ELSE Rat(0, 1)

\* _score_financial_protection
ScoreFinancialProtection(plan) ==
    LET deductible == plan.deductible
        oopm == plan.oop_max
    IN IF deductible <= 500 /\ oopm <= 3000 THEN Rat(10, 1)
       ELSE IF deductible <= 1000 /\ oopm <= 5000 THEN Rat(7, 1)
       ELSE IF deductible <= 2000 /\ oopm <= 7000 THEN Rat(4, 1)
       ELSE Rat(0, 1)

\* _score_administrative_simplicity
ScoreAdministrativeSimplicity(plan) ==
    LET score == 10 - (IF plan.requires_referrals THEN 3 ELSE 0)
                    - (IF plan.administrative.prior_auth_common THEN 2 ELSE 0)
                    - (IF plan.administrative.uses_maximizer THEN 2 ELSE 0)
                    - (IF plan.administrative.plan_rating < 30 THEN 1 ELSE 0)
    IN Rat(Max(0, score), 1)

\* _score_plan_quality: min(10.0, plan_rating * 2), plan_rating in tenths
ScorePlanQuality(plan) == Rat(Min(100, plan.administrative.plan_rating * 2), 10)

RatAdd(x, y) == Rat(x.n * y.d + y.n * x.d, x.d * y.d)
RatScale(k, x) == Rat(k * x.n, x.d)

\* round(): to the nearest integer, ties to the even one (x >= 0)
RoundHalfEven(x) ==
    LET q == x.n \div x.d
        r == x.n % x.d
    IN IF 2 * r < x.d THEN q
       ELSE IF 2 * r > x.d THEN q + 1
       ELSE IF q % 2 = 0 THEN q ELSE q + 1

\* _calculate_weighted_score with the provider and medication weights swapped
WeightedScoreSwapped(metrics) ==
    RoundHalfEven(
        RatAdd(RatScale(25, metrics.provider_network_score),
        RatAdd(RatScale(30, metrics.medication_coverage_score),
        RatAdd(RatScale(20, metrics.total_cost_score),
        RatAdd(RatScale(10, metrics.financial_protection_score),
        RatAdd(RatScale(10, metrics.administrative_simplicity_score),
               RatScale(5, metrics.plan_quality_score)))))))

\* _calculate_weighted_score: round(sum, 2), in hundredths
CalculateWeightedScore(metrics) ==
    RoundHalfEven(
        RatAdd(RatScale(WEIGHTS.provider_network, metrics.provider_network_score),
        RatAdd(RatScale(WEIGHTS.medication_coverage, metrics.medication_coverage_score),
        RatAdd(RatScale(WEIGHTS.total_cost, metrics.total_cost_score),
        RatAdd(RatScale(WEIGHTS.financial_protection, metrics.financial_protection_score),
        RatAdd(RatScale(WEIGHTS.administrative_simplicity,
                        metrics.administrative_simplicity_score),
               RatScale(WEIGHTS.plan_quality, metrics.plan_quality_score)))))))

\* _get_provider_coverage_details
ProviderCoverageDetails(c, plan) ==
    LET ps == c.medical_profile.providers
    IN [nm \in {ps[k].name : k \in DOMAIN ps} |->
           Get(plan.network, nm, "OUT") = "IN"]

\* _get_medication_coverage_details
MedicationCoverageDetails(c, plan) ==
    LET ms == c.medical_profile.medications
    IN [nm \in {ms[k].name : k \in DOMAIN ms} |-> Get(plan.formulary, nm, "NOT")]

\* score_plan giving the full provider score to a client who rates keeping
\* providers below 3
ScorePlanByPriorities(c, plan, all_plans, ref) ==
    LET estimated_cost == CalculateAnnualCost(c, plan)
        m0 == [provider_network_score |->
                   IF c.priorities.keep_providers >= 3
                   THEN ScoreProviderNetwork(c, plan) ELSE Rat(10, 1),
               medication_coverage_score |-> ScoreMedicationCoverage(c, plan),
               financial_protection_score |-> ScoreFinancialProtection(plan),
               administrative_simplicity_score |-> ScoreAdministrativeSimplicity(plan),
               plan_quality_score |-> ScorePlanQuality(plan),
               total_cost_score |-> ScoreTotalCost(estimated_cost, all_plans, c)]
        metrics == [f \in DOMAIN m0 \cup {"weighted_total_score"} |->
                       IF f = "weighted_total_score"
                       THEN CalculateWeightedScore(m0) ELSE m0[f]]
    IN [plan |-> plan, plan_ref |-> ref, metrics |-> metrics,
        estimated_annual_cost |-> estimated_cost,
        provider_coverage_details |-> ProviderCoverageDetails(c, plan),
        medication_coverage_details |-> MedicationCoverageDetails(c, plan)]

\* score_plan; ref is the identity of the Plan object (its position in the
\* caller's list), carried by the PlanAnalysis as analysis.plan
ScorePlan(c, plan, all_plans, ref) ==
    LET estimated_cost == CalculateAnnualCost(c, plan)
        m0 == [provider_network_score |-> ScoreProviderNetwork(c, plan),
               medication_coverage_score |-> ScoreMedicationCoverage(c, plan),
               financial_protection_score |-> ScoreFinancialProtection(plan),
               administrative_simplicity_score |-> ScoreAdministrativeSimplicity(plan),
               plan_quality_score |-> ScorePlanQuality(plan),
               total_cost_score |-> ScoreTotalCost(estimated_cost, all_plans, c)]
        metrics == [f \in DOMAIN m0 \cup {"weighted_total_score"} |->
                       IF f = "weighted_total_score"
                       THEN CalculateWeightedScore(m0) ELSE m0[f]]
    IN [plan |-> plan, plan_ref |-> ref, metrics |-> metrics,
        estimated_annual_cost |-> estimated_cost,
        provider_coverage_details |-> ProviderCoverageDetails(c, plan),
        medication_coverage_details |-> MedicationCoverageDetails(c, plan)]

(***************************************************************************)
(* engine.py: AnalysisEngine.analyze_plans                                 *)
(***************************************************************************)
Key(a) == a.metrics.weighted_total_score

\* list.sort placing an element before the elements of equal key
InsertBeforeTies(sorted, x) ==
    LET k == Cardinality({j \in DOMAIN sorted : Key(sorted[j]) > Key(x)})
    IN SubSeq(sorted, 1, k) \o <<x>> \o SubSeq(sorted, k + 1, Len(sorted))

\* One insertion of the stable descending sort: x goes after every element
\* whose key is >= its own (sorted is non-increasing).
InsertDesc(sorted, x) ==
    LET k == Cardinality({j \in DOMAIN sorted : Key(sorted[j]) >= Key(x)})
    IN SubSeq(sorted, 1, k) \o <<x>> \o SubSeq(sorted, k + 1, Len(sorted))

\* plan_analyses.sort(key=weighted_total_score, reverse=True): Python's sort
\* is stable, also with reverse=True.
RECURSIVE SortPrefix(_, _)
SortPrefix(seq, n) ==
    IF n = 0 THEN <<>> ELSE InsertDesc(SortPrefix(seq, n - 1), seq[n])

SortByScoreDesc(seq) == SortPrefix(seq, Len(seq))

\* plan_analyses[:2]
TopTwo(analyses) == SubSeq(analyses, 1, Min(2, Len(analyses)))

\* plan_analyses[:3]
TopRecommendations(analyses) == SubSeq(analyses, 1, Min(3, Len(analyses)))

\* analyze_plans without the guard: an empty list yields an empty report
AnalyzePlansEmptyReport ==
    /\ pc = "analyze_plans"
    /\ plans = <<>>
    /\ report' = Some([client |-> client, plan_analyses |-> <<>>,
                       top_recommendations |-> <<>>])
    /\ pc' = "done"
    /\ UNCHANGED <<client, plan_sources, hc_plans, plans, i, plan_analyses,
                   error, export_data, reparsed, kwargs, built,
                   files, parsed, rendered>>

\* analyze_plans: "if not plans: raise ValueError"
AnalyzePlansEmpty ==
    /\ pc = "analyze_plans"
    /\ plans = <<>>
    /\ error' = Some("ValueError: No plans provided for analysis")
    /\ pc' = "raised"
    /\ UNCHANGED <<client, plan_sources, hc_plans, plans, i, plan_analyses,
                   report, export_data, reparsed, kwargs, built,
                   files, parsed, rendered>>

\* analyze_plans: plan_analyses = [] and entry into the scoring loop
AnalyzePlansBegin ==
    /\ pc = "analyze_plans"
    /\ plans # <<>>
    /\ plan_analyses' = <<>>
    /\ i' = 1
    /\ pc' = "scoring"
    /\ UNCHANGED <<client, plan_sources, hc_plans, plans, report, error,
                   export_data, reparsed, kwargs, built,
                   files, parsed, rendered>>

\* one turn of the loop scoring against the plans seen so far only
ScoreNextAgainstPrefix ==
    /\ pc = "scoring"
    /\ i <= Len(plans)
    /\ plan_analyses' = Append(plan_analyses,
                               ScorePlan(client, plans[i], SubSeq(plans, 1, i), i))
    /\ i' = i + 1
    /\ UNCHANGED <<pc, client, plan_sources, hc_plans, plans, report, error,
                   export_data, reparsed, kwargs, built,
                   files, parsed, rendered>>

\* analyze_plans: one turn of "for plan in plans"
ScoreNext ==
    /\ pc = "scoring"
    /\ i <= Len(plans)
    /\ plan_analyses' = Append(plan_analyses, ScorePlan(client, plans[i], plans, i))
    /\ i' = i + 1
    /\ UNCHANGED <<pc, client, plan_sources, hc_plans, plans, report, error,
                   export_data, reparsed, kwargs, built,
                   files, parsed, rendered>>

\* analyze_plans: after the loop, sort, slice and build the AnalysisReport
RankAndReport ==
    /\ pc = "scoring"
    /\ i > Len(plans)
    /\ LET sorted == SortByScoreDesc(plan_analyses)
       IN /\ plan_analyses' = sorted
          /\ report' = Some([client |-> client,
                             plan_analyses |-> sorted,
                             top_recommendations |-> TopRecommendations(sorted)])
    /\ pc' = "done"
    /\ UNCHANGED <<client, plan_sources, hc_plans, plans, i, error,
                   export_data, reparsed, kwargs, built,
                   files, parsed, rendered>>

(***************************************************************************)
(* analyzer.py: HealthPlanAnalyzer.analyze and _load_plans                 *)
(***************************************************************************)
\* What one entry of plan_sources contributes in _load_plans: a directory
\* gives parse_batch's list, a file gives parse_document's plan (or nothing
\* when it returns None), any other path is passed over.
SourcePlans(src) ==
    CASE src.kind = "dir" -> src.parsed
      [] src.kind = "file" -> src.parsed
      [] OTHER -> <<>>

RECURSIVE LoadLocal(_)
LoadLocal(sources) ==
    IF sources = <<>> THEN <<>>
    ELSE SourcePlans(Head(sources)) \o LoadLocal(Tail(sources))

\* _load_plans
LoadPlans(sources, hc) ==
    LoadLocal(sources) \o (IF hc = None THEN <<>> ELSE hc[1])

\* parse_document raises ValueError for a file of an unsupported extension
LoadRaises(sources) ==
    \E k \in DOMAIN sources : sources[k].kind = "unsupported_file"

\* analyze: _load_plans lets parse_document's ValueError through
AnalyzeUnsupported ==
    /\ pc = "analyze"
    /\ LoadRaises(plan_sources)
    /\ error' = Some("ValueError: Unsupported file format")
    /\ pc' = "raised"
    /\ UNCHANGED <<client, plan_sources, hc_plans, plans, i, plan_analyses,
                   report, export_data, reparsed, kwargs, built,
                   files, parsed, rendered>>

\* analyze: "if not plans: raise ValueError"
AnalyzeNoPlans ==
    /\ pc = "analyze"
    /\ ~LoadRaises(plan_sources)
    /\ LoadPlans(plan_sources, hc_plans) = <<>>
    /\ error' = Some("ValueError: No plans available for analysis")
    /\ pc' = "raised"
    /\ UNCHANGED <<client, plan_sources, hc_plans, plans, i, plan_analyses,
                   report, export_data, reparsed, kwargs, built,
                   files, parsed, rendered>>

\* analyze: plans loaded, self.engine.analyze_plans(client, plans) is called
AnalyzeRun ==
    /\ pc = "analyze"
    /\ ~LoadRaises(plan_sources)
    /\ LoadPlans(plan_sources, hc_plans) # <<>>
    /\ plans' = LoadPlans(plan_sources, hc_plans)
    /\ pc' = "analyze_plans"
    /\ UNCHANGED <<client, plan_sources, hc_plans, i, plan_analyses, report,
                   error, export_data, reparsed, kwargs, built,
                   files, parsed, rendered>>

(***************************************************************************)
(* report.py: generate_json_export;  ingest.py: parse_json, _json_to_plan  *)
(* A JSON value is tagged: a number, a string or null.                     *)
(***************************************************************************)
JNum(v) == [t |-> "num", v |-> v]
JStr(x) == [t |-> "str", s |-> x]
JNull == [t |-> "null"]
JObj(o) == [t |-> "obj", o |-> o]

\* json.dump of an Optional[float] attribute: None is written as null
JOpt(o) == IF o = None THEN JNull ELSE JNum(o[1])

\* The 'plan' object of one plan_analyses entry of the export
ExportPlan(p) ==
    [plan_id |-> JStr(p.plan_id),
     marketing_name |-> JStr(p.marketing_name),
     metal_level |-> JStr(MetalLevelValue(p.metal_level)),
     monthly_premium |-> JNum(p.monthly_premium),
     deductible_individual |-> JOpt(p.deductible_individual),
     oop_max_individual |-> JOpt(p.oop_max_individual)]

\* generate_json_export: export_data['plan_analyses']
ExportData(rep) ==
    [plan_analyses |->
        [idx \in DOMAIN rep.plan_analyses |->
            LET analysis == rep.plan_analyses[idx]
            IN [rank |-> idx,
                plan |-> ExportPlan(analysis.plan),
                scores |-> analysis.metrics,
                estimated_annual_cost |-> analysis.estimated_annual_cost]]]

\* DocumentParser.metal_level_mapping
metal_level_mapping ==
    [bronze |-> "BRONZE", silver |-> "SILVER", gold |-> "GOLD",
     platinum |-> "PLATINUM"]

\* float(str) on the strings the model uses; None stands for ValueError
ParseFloatStr(x) ==
    CASE x = "0" -> Some(0)
      [] x = "1" -> Some(1)
      [] x = "8" -> Some(8)
      [] x = "40" -> Some(40)
      [] x = "80" -> Some(80)
      [] x = "250" -> Some(250)
      [] x = "350" -> Some(350)
      [] x = "500" -> Some(500)
      [] x = "1500" -> Some(1500)
      [] x = "3000" -> Some(3000)
      [] x = "3500" -> Some(3500)
      [] x = "5000" -> Some(5000)
      [] x = "7500" -> Some(7500)
      [] x = "8700" -> Some(8700)
      [] OTHER -> None

\* float(v): Some(number), or None when float raises (TypeError for null,
\* ValueError for a string that is no number)
Float(v) ==
    CASE v.t = "num" -> Some(v.v)
      [] v.t = "str" -> ParseFloatStr(v.s)
      [] OTHER -> None

\* _json_to_plan: [ok |-> TRUE, plan |-> Plan] or [ok |-> FALSE] when an
\* exception leaves it
JsonToPlan(data) ==
    LET deductible == Get(data, "deductible",
                          Get(data, "deductible_individual", JNum(0)))
        oop_max == Get(data, "oop_max", Get(data, "oop_max_individual", JNum(0)))
        ml == Get(data, "metal_level", JStr(""))
        nums == [deductible |-> Float(deductible),
                 oop_max |-> Float(oop_max),
                 monthly_premium |-> Float(Get(data, "monthly_premium", JNum(0))),
                 copay_primary |-> Float(Get(data, "copay_primary", JNum(0))),
                 copay_specialist |-> Float(Get(data, "copay_specialist", JNum(0)))]
        \* CostSharing(**data.get('cost_sharing', {})) and
        \* Administrative(**data.get('administrative', {})): TypeError for a
        \* value that is no object or holds a key that is no field
        cs == Get(data, "cost_sharing", JObj(EmptyDict))
        adm == Get(data, "administrative", JObj(EmptyDict))
        cs_raises == \/ cs.t # "obj"
                     \/ ~(DOMAIN cs.o \subseteq
                            {"primary_care_copay", "specialist_copay",
                             "coinsurance_outpatient", "emergency_room_copay"})
        adm_raises == \/ adm.t # "obj"
                      \/ ~(DOMAIN adm.o \subseteq DOMAIN Administrative)
    IN IF \/ ml.t # "str"
          \/ \E f \in DOMAIN nums : nums[f] = None
          \/ cs_raises
          \/ adm_raises
       THEN [ok |-> FALSE]
       ELSE [ok |-> TRUE,
             plan |-> Plan(
                [plan_id |-> Get(data, "plan_id", JStr("")).s,
                 marketing_name |-> Get(data, "marketing_name", JStr("")).s,
                 metal_level |-> Get(metal_level_mapping, Lower(ml.s), "SILVER"),
                 monthly_premium |-> nums.monthly_premium[1],
                 deductible |-> nums.deductible[1],
                 oop_max |-> nums.oop_max[1],
                 copay_primary |-> nums.copay_primary[1],
                 copay_specialist |-> nums.copay_specialist[1],
                 requires_referrals |-> Get(data, "requires_referrals", FALSE),
                 cost_sharing |->
                    [f \in DOMAIN CostSharing |-> Get(cs.o, f, CostSharing[f])],
                 administrative |->
                    [f \in DOMAIN Administrative |->
                        Get(adm.o, f, Administrative[f])]])]

\* parse_json: the Plan, or None when anything raised
ParseJson(data) ==
    LET r == JsonToPlan(data) IN IF r.ok THEN Some(r.plan) ELSE None

\* ReportGenerator.generate_json_export(report)
GenerateJsonExport ==
    /\ pc = "done"
    /\ export_data' = Some(ExportData(report[1]))
    /\ pc' = "exported"
    /\ UNCHANGED <<client, plan_sources, hc_plans, plans, i, plan_analyses,
                   report, error, reparsed, kwargs, built,
                   files, parsed, rendered>>

\* Each exported plan object is written to a .json file and read back with
\* parse_json.
ReparseExport ==
    /\ pc = "exported"
    /\ reparsed' = Some([k \in DOMAIN export_data[1].plan_analyses |->
                            ParseJson(export_data[1].plan_analyses[k].plan)])
    /\ pc' = "reparsed"
    /\ UNCHANGED <<client, plan_sources, hc_plans, plans, i, plan_analyses,
                   report, error, export_data, kwargs, built,
                   files, parsed, rendered>>

(***************************************************************************)
(* engine.py: generate_scoring_matrix;  report.py: the markdown summary    *)
(* and the CSV matrix.  Of the rendered text the model keeps the values    *)
(* the text is built from.  Formatting None with a ',.2f' or '.2f' format  *)
(* raises TypeError.                                                       *)
(***************************************************************************)
\* PlanAnalysis.__eq__ (dataclass): equal fields, whatever the objects
AnalysisValue(analysis) ==
    [f \in DOMAIN analysis \ {"plan_ref"} |-> analysis[f]]

\* list.index(x): the first position holding a value equal to x
Index(list, x) ==
    CHOOSE k \in DOMAIN list :
        /\ AnalysisValue(list[k]) = AnalysisValue(x)
        /\ \A j \in 1..(k - 1) : AnalysisValue(list[j]) # AnalysisValue(x)

\* AnalysisEngine.generate_scoring_matrix(report)
ScoringMatrix(rep) ==
    [k \in DOMAIN rep.plan_analyses |->
        LET analysis == rep.plan_analyses[k]
        IN [plan_name |-> analysis.plan.marketing_name,
            plan_id |-> analysis.plan.plan_id,
            overall_score |-> analysis.metrics.weighted_total_score,
            rank |-> Index(rep.plan_analyses, analysis)]]

\* ReportGenerator.generate_executive_summary(report)
ExecutiveSummary(rep) ==
    IF rep.top_recommendations = <<>>
    THEN [raised |-> FALSE, summary |-> [recommended |-> None]]
    ELSE LET top_plan == rep.top_recommendations[1]
         IN IF \/ top_plan.plan.deductible_individual = None
               \/ top_plan.plan.oop_max_individual = None
            THEN [raised |-> TRUE]
            ELSE [raised |-> FALSE,
                  summary |->
                     [recommended |-> Some(top_plan.plan.marketing_name),
                      full_name |-> rep.client.personal.full_name,
                      deductible |-> top_plan.plan.deductible_individual[1],
                      oop_max |-> top_plan.plan.oop_max_individual[1],
                      top3 |-> [k \in DOMAIN rep.top_recommendations |->
                                   rep.top_recommendations[k].plan.marketing_name],
                      best_case |-> top_plan.plan.monthly_premium * 12,
                      worst_case |-> top_plan.plan.oop_max_individual[1]
                                     + top_plan.plan.monthly_premium * 12,
                      expected |-> top_plan.estimated_annual_cost]]

\* ReportGenerator.generate_scoring_matrix_csv(report): the rows written
ScoringMatrixCsv(rep) ==
    IF \E k \in DOMAIN rep.plan_analyses :
          \/ rep.plan_analyses[k].plan.deductible_individual = None
          \/ rep.plan_analyses[k].plan.oop_max_individual = None
    THEN [raised |-> TRUE]
    ELSE [raised |-> FALSE,
          rows |-> [k \in DOMAIN rep.plan_analyses |->
                      LET analysis == rep.plan_analyses[k]
                      IN [rank |-> k,
                          plan_name |-> analysis.plan.marketing_name,
                          plan_id |-> analysis.plan.plan_id,
                          deductible |-> analysis.plan.deductible_individual[1],
                          oop_max |-> analysis.plan.oop_max_individual[1],
                          overall_score |->
                             analysis.metrics.weighted_total_score]]]

\* engine.generate_scoring_matrix(report)
GenerateScoringMatrix ==
    /\ pc = "done"
    /\ rendered' = Some(ScoringMatrix(report[1]))
    /\ pc' = "matrix_returned"
    /\ UNCHANGED <<client, plan_sources, hc_plans, plans, i, plan_analyses,
                   report, error, export_data, reparsed, kwargs, built,
                   files, parsed>>

\* report_gen.generate_executive_summary(report)
GenerateExecutiveSummary ==
    /\ pc = "done"
    /\ LET out == ExecutiveSummary(report[1])
       IN IF out.raised
          THEN /\ pc' = "summary_raised"
               /\ error' = Some("TypeError: unsupported format string passed to NoneType.__format__")
               /\ rendered' = rendered
          ELSE /\ pc' = "summary_returned"
               /\ rendered' = Some(out.summary)
               /\ error' = error
    /\ UNCHANGED <<client, plan_sources, hc_plans, plans, i, plan_analyses,
                   report, export_data, reparsed, kwargs, built,
                   files, parsed>>

\* report_gen.generate_scoring_matrix_csv(report)
GenerateScoringMatrixCsv ==
    /\ pc = "done"
    /\ LET out == ScoringMatrixCsv(report[1])
       IN IF out.raised
          THEN /\ pc' = "csv_raised"
               /\ error' = Some("TypeError: unsupported format string passed to NoneType.__format__")
               /\ rendered' = rendered
          ELSE /\ pc' = "csv_written"
               /\ rendered' = Some(out.rows)
               /\ error' = error
    /\ UNCHANGED <<client, plan_sources, hc_plans, plans, i, plan_analyses,
                   report, export_data, reparsed, kwargs, built,
                   files, parsed>>

\* Plan(**kwargs)
ConstructPlan ==
    /\ pc = "Plan"
    /\ built' = Some(Plan(kwargs))
    /\ pc' = "constructed"
    /\ UNCHANGED <<client, plan_sources, hc_plans, plans, i, plan_analyses,
                   report, error, export_data, reparsed, kwargs,
                   files, parsed, rendered>>

(***************************************************************************)
(* ingest.py, ingest_fixed.py: DocumentParser.                             *)
(* A file is [stem, suffix, content]: Path(file).stem, Path(file).suffix   *)
(* and what reading it gives:                                              *)
(*   [kind |-> "unreadable"]        opening or decoding the file raises    *)
(*   [kind |-> "json", data |-> d]  json.load returns the object d         *)
(*   [kind |-> "csv", rows |-> r]   csv.DictReader yields the rows r; a    *)
(*                                  cell is JStr(text), or JNull where the *)
(*                                  line is short (restval None)           *)
(*   [kind |-> "text", text |-> t]  the PDF / DOCX reader returns the text *)
(*                                  t, the sequence of its words           *)
(***************************************************************************)
PlanType == {"HMO", "PPO", "EPO", "POS", "HDHP"}

\* str.upper() on the plan-type strings the model uses
Upper(s) ==
    CASE s = "ppo" -> "PPO"
      [] s = "hmo" -> "HMO"
      [] OTHER -> s

\* _csv_row_to_plan: <<the Plan>>, or None when the conversion raised
CsvRowToPlan(row) ==
    LET deductible == Get(row, "deductible",
                          Get(row, "deductible_individual", JNum(0)))
        oop_max == Get(row, "oop_max", Get(row, "oop_max_individual", JNum(0)))
        ml == Get(row, "metal_level", JStr(""))
        pt == Get(row, "plan_type", JNull)
        rr == Get(row, "requires_referrals", JStr(""))
        \* coinsurance defaults to 0.2; only its coercion matters here
        nums == [monthly_premium |-> Float(Get(row, "monthly_premium", JNum(0))),
                 deductible |-> Float(deductible),
                 oop_max |-> Float(oop_max),
                 copay_primary |-> Float(Get(row, "copay_primary", JNum(0))),
                 copay_specialist |-> Float(Get(row, "copay_specialist", JNum(0))),
                 copay_er |-> Float(Get(row, "copay_er", JNum(0))),
                 coinsurance |-> Float(Get(row, "coinsurance", JNum(0))),
                 quality_rating |-> Float(Get(row, "quality_rating", JNum(0))),
                 customer_rating |-> Float(Get(row, "customer_rating", JNum(0)))]
        raises == \/ ml.t # "str"
                  \/ (pt.t = "str" /\ pt.s # "" /\ Upper(pt.s) \notin PlanType)
                  \/ rr.t # "str"
                  \/ \E f \in DOMAIN nums : nums[f] = None
    IN IF raises THEN None
       ELSE Some(Plan(
               [plan_id |-> Get(row, "plan_id", JStr("")).s,
                marketing_name |-> Get(row, "marketing_name", JStr("")).s,
                metal_level |-> Get(metal_level_mapping, Lower(ml.s), "SILVER"),
                monthly_premium |-> nums.monthly_premium[1],
                deductible |-> nums.deductible[1],
                oop_max |-> nums.oop_max[1],
                copay_primary |-> nums.copay_primary[1],
                copay_specialist |-> nums.copay_specialist[1],
                requires_referrals |-> (Lower(rr.s) = "true")]))

\* The rows' plans, the rows that did not convert left out
RowsToPlans(rows) ==
    LET converted == [k \in DOMAIN rows |-> CsvRowToPlan(rows[k])]
        kept == SelectSeq(converted, LAMBDA o : o # None)
    IN [k \in DOMAIN kept |-> kept[k][1]]

\* parse_csv giving up the whole file at a row that does not convert
ParseCsvAllOrNothing(f) ==
    IF f.content.kind # "csv" THEN <<>>
    ELSE IF \E k \in DOMAIN f.content.rows : CsvRowToPlan(f.content.rows[k]) = None
    THEN <<>>
    ELSE RowsToPlans(f.content.rows)

\* parse_csv: the list of plans; [] when reading the file raised
ParseCsv(f) ==
    IF f.content.kind # "csv" THEN <<>>
    ELSE RowsToPlans(f.content.rows)

\* parse_json on a file: json.load, then _json_to_plan; None when either
\* raised
ParseJsonFile(f) ==
    IF f.content.kind # "json" THEN None ELSE ParseJson(f.content.data)

(***************************************************************************)
(* Text extraction (ingest_fixed.py).  The text is the sequence of its     *)
(* whitespace-separated words; the regular expressions are searched with   *)
(* re.IGNORECASE, so words are compared in lower case.                     *)
(***************************************************************************)
\* The words t[k], t[k+1], ... spell the given lower-case words
SpellsAt(t, k, words) ==
    /\ k >= 1
    /\ k + Len(words) - 1 <= Len(t)
    /\ \A j \in DOMAIN words : Lower(t[k + j - 1]) = words[j]

\* The group \$([0-9,]+(?:\.[0-9]{2})?) captures at the start of a word
AmountGroup(tok) ==
    CASE tok = "$0" -> Some("0")
      [] tok = "$40" -> Some("40")
      [] tok = "$80" -> Some("80")
      [] tok = "$250" -> Some("250")
      [] tok = "$500" -> Some("500")
      [] tok = "$1,500" -> Some("1,500")
      [] tok = "$8,700" -> Some("8,700")
      [] tok = "$," -> Some(",")
      [] OTHER -> None

\* The group \$([0-9]+(?:\.[0-9]{2})?) captures at the start of a word
DigitsGroup(tok) ==
    CASE tok = "$0" -> Some("0")
      [] tok = "$40" -> Some("40")
      [] tok = "$80" -> Some("80")
      [] tok = "$250" -> Some("250")
      [] tok = "$500" -> Some("500")
      [] tok = "$1,500" -> Some("1")
      [] tok = "$8,700" -> Some("8")
      [] OTHER -> None

\* str.replace(',', '')
StripCommas(x) ==
    CASE x = "1,500" -> "1500"
      [] x = "8,700" -> "8700"
      [] x = "," -> ""
      [] OTHER -> x

\* ([0-9]+AZ[0-9]+) at the start of a word
MarketplaceGroup(tok) ==
    CASE tok = "12345AZ0010001" -> Some("12345AZ0010001")
      [] tok = "1AZ2" -> Some("1AZ2")
      [] OTHER -> None

\* ([0-9]{5,}AZ[0-9]{4,}) in a word
StrictMarketplaceGroup(tok) ==
    CASE tok = "12345AZ0010001" -> Some("12345AZ0010001")
      [] OTHER -> None

\* The leading run of letters and digits of a word that starts with one
AlnumPrefix(tok) ==
    CASE tok = "Out-of-pocket" -> "Out"
      [] tok = "ID:" -> "ID"
      [] tok = "Deductible:" -> "Deductible"
      [] OTHER -> tok

\* ([A-Z0-9]+), case ignored, at the start of a word
AlnumGroup(tok) ==
    IF AmountGroup(tok) # None \/ tok \in {"$abc", "/month"} THEN None
    ELSE Some(AlnumPrefix(tok))

\* ([0-9]{6,}) at the start of a word
SixDigitsGroup(tok) ==
    CASE tok = "1234567" -> Some("1234567")
      [] OTHER -> None

\* match.group(1) of the word tok under the capture group named g
Group(g, tok) ==
    CASE g = "amount" -> AmountGroup(tok)
      [] g = "digits" -> DigitsGroup(tok)
      [] g = "marketplace" -> MarketplaceGroup(tok)
      [] g = "strict_marketplace" -> StrictMarketplaceGroup(tok)
      [] g = "alnum" -> AlnumGroup(tok)
      [] g = "six_digits" -> SixDigitsGroup(tok)

\* re.search(<words> \s* <group> [\s* <tail>]): the group of the leftmost
\* match, or None
SearchAmount(t, words, g, tail) ==
    LET hits == {k \in DOMAIN t :
                    /\ SpellsAt(t, k, words)
                    /\ k + Len(words) <= Len(t)
                    /\ Group(g, t[k + Len(words)]) # None
                    /\ SpellsAt(t, k + Len(words) + 1, tail)}
    IN IF hits = {} THEN None
       ELSE LET k == CHOOSE x \in hits : \A y \in hits : x <= y
            IN Group(g, t[k + Len(words)])

\* float(match.group(1).replace(',', '')) of the first pattern that
\* matches: [raised |-> TRUE] for ValueError, else the Optional value
FloatOfFirst(matches) ==
    LET found == SelectSeq(matches, LAMBDA m : m # None)
    IN IF found = <<>> THEN [raised |-> FALSE, value |-> None]
       ELSE LET v == ParseFloatStr(StripCommas(found[1][1]))
            IN IF v = None THEN [raised |-> TRUE]
               ELSE [raised |-> FALSE, value |-> v]

\* _extract_deductible_fixed
ExtractDeductibleFixed(t) ==
    FloatOfFirst(
        <<SearchAmount(t, <<"deductible">>, "amount", <<"individual">>),
          SearchAmount(t, <<"deductible">>, "amount", <<>>),
          SearchAmount(t, <<"individual", "deductible:">>, "amount", <<>>)>>)

\* _extract_oop_max_fixed
ExtractOopMaxFixed(t) ==
    FloatOfFirst(
        <<SearchAmount(t, <<"out-of-pocket", "maximum">>, "amount",
                       <<"individual">>),
          SearchAmount(t, <<"out-of-pocket", "maximum">>, "amount", <<>>),
          SearchAmount(t, <<"maximum">>, "amount", <<"individual">>)>>)

\* \$([0-9]+(?:\.[0-9]{2})?)\s*/month: the amount word must end where the
\* digits end
SearchPerMonth(t) ==
    LET hits == {k \in DOMAIN t :
                    /\ DigitsGroup(t[k]) # None
                    /\ DigitsGroup(t[k]) = AmountGroup(t[k])
                    /\ SpellsAt(t, k + 1, <<"/month">>)}
    IN IF hits = {} THEN None
       ELSE DigitsGroup(t[CHOOSE x \in hits : \A y \in hits : x <= y])

\* _extract_premium_fixed: the first pattern whose leftmost match is above
\* zero, or is zero in a text that says "premium $0"
ExtractPremiumFixed(t) ==
    LET zero_stated == \E k \in DOMAIN t : SpellsAt(t, k, <<"premium", "$0">>)
        matches == <<SearchAmount(t, <<"monthly", "premium">>, "digits", <<>>),
                     SearchAmount(t, <<"premium">>, "digits", <<>>),
                     SearchPerMonth(t),
                     SearchAmount(t, <<"was">>, "digits", <<>>)>>
        accepted == SelectSeq(matches,
                        LAMBDA m : m # None
                                   /\ (ParseFloatStr(m[1])[1] > 0 \/ zero_stated))
    IN IF accepted = <<>> THEN None ELSE ParseFloatStr(accepted[1][1])

\* float(match.group(1)) of the first copay pattern that matches, else the
\* CostSharing default 0
CopayOfFirst(matches) ==
    LET found == SelectSeq(matches, LAMBDA m : m # None)
    IN IF found = <<>> THEN 0 ELSE ParseFloatStr(found[1][1])[1]

\* _extract_cost_sharing_fixed, for the two copays the model keeps
ExtractCostSharingFixed(t) ==
    [primary_care_copay |->
        CopayOfFirst(
            <<SearchAmount(t, <<"primary", "care", "visit">>, "digits", <<>>),
              SearchAmount(t, <<"pcp">>, "digits", <<>>),
              SearchAmount(t, <<"doctor", "visit">>, "digits", <<>>)>>),
     specialist_copay |->
        CopayOfFirst(
            <<SearchAmount(t, <<"specialist", "visit">>, "digits", <<>>),
              SearchAmount(t, <<"specialist">>, "digits", <<>>)>>)]

\* _extract_administrative_details: both patterns set prior_auth_common
ExtractAdministrativeDetails(t) ==
    LET referral == \E j, k \in DOMAIN t :
                        /\ j < k
                        /\ Lower(t[j]) \in {"referral", "referrals"}
                        /\ Lower(t[k]) \in {"required", "needed"}
        prior_auth == \E k \in DOMAIN t :
                        /\ Lower(t[k]) = "prior"
                        /\ k + 1 <= Len(t)
                        /\ Lower(t[k + 1]) \in {"auth", "authorization"}
    IN [prior_auth_common |-> (referral \/ prior_auth),
        uses_maximizer |-> FALSE,
        plan_rating |-> 35]

\* DocumentParser.metal_level_mapping of ingest_fixed.py
metal_level_mapping_fixed ==
    [bronze |-> "BRONZE", silver |-> "SILVER", gold |-> "GOLD",
     platinum |-> "PLATINUM", catastrophic |-> "CATASTROPHIC"]

\* "metal in s.lower()" for the words and file stems the model uses
ContainsMetal(s, metal) ==
    \/ Lower(s) = metal
    \/ <<Lower(s), metal>> \in {<<"gold_ambetter_2025", "gold">>,
                                <<"plan_bronze", "bronze">>,
                                <<"golden", "gold">>}

\* _extract_metal_level_fixed
ExtractMetalLevelFixed(t, stem) ==
    LET in_combined(metal) ==
            \/ \E k \in DOMAIN t : ContainsMetal(t[k], metal)
            \/ ContainsMetal(stem, metal)
        order == <<"platinum", "gold", "silver", "bronze", "catastrophic">>
        found == SelectSeq(order, in_combined)
    IN IF found = <<>> THEN "SILVER" ELSE metal_level_mapping_fixed[found[1]]

\* _extract_metal_level of ingest.py, with the mapping of ingest.py
ExtractMetalLevel(filename, t) ==
    LET found(metal) ==
            \/ ContainsMetal(filename, metal)
            \/ \E k \in DOMAIN t : ContainsMetal(t[k], metal)
        order == <<"platinum", "gold", "silver", "bronze">>
        hits == SelectSeq(order, found)
    IN IF hits = <<>> THEN "SILVER" ELSE metal_level_mapping[hits[1]]

\* re.search(r'([0-9]{6,})', filename)
StemDigits(stem) ==
    CASE stem = "plan_654321" -> Some("654321")
      [] OTHER -> None

\* filename[:20]
First20(stem) ==
    CASE stem = "a_very_long_plan_document" -> "a_very_long_plan_doc"
      [] OTHER -> stem

\* re.sub(r'[^A-Z0-9]', '', filename.upper())[:20]
SanitizedUpper(stem) ==
    CASE stem = "plan_0" -> "PLAN0"
      [] stem = "plan_654321" -> "PLAN654321"
      [] stem = "plan_bronze" -> "PLANBRONZE"
      [] stem = "scan" -> "SCAN"
      [] stem = "broken" -> "BROKEN"
      [] stem = "Gold_Ambetter_2025" -> "GOLDAMBETTER2025"
      [] stem = "a_very_long_plan_document" -> "AVERYLONGPLANDOCUMEN"
      [] OTHER -> stem

\* re.search(r'Plan ID[:\s]+' + group): the group of the leftmost match
SearchPlanIdLabel(t, g) ==
    LET hits == {k \in DOMAIN t :
                    /\ \/ SpellsAt(t, k, <<"plan", "id:">>)
                       \/ SpellsAt(t, k, <<"plan", "id">>)
                    /\ k + 2 <= Len(t)
                    /\ Group(g, t[k + 2]) # None}
    IN IF hits = {} THEN None
       ELSE Group(g, t[(CHOOSE x \in hits : \A y \in hits : x <= y) + 2])

\* _extract_plan_id_fixed
ExtractPlanIdFixed(t, stem) ==
    LET matches == <<SearchPlanIdLabel(t, "marketplace"),
                     SearchAmount(t, <<>>, "strict_marketplace", <<>>),
                     SearchPlanIdLabel(t, "alnum"),
                     SearchAmount(t, <<"id">>, "six_digits", <<>>)>>
        found == SelectSeq(matches, LAMBDA m : m # None)
    IN IF found # <<>> THEN found[1][1]
       ELSE IF StemDigits(stem) # None THEN StemDigits(stem)[1]
       ELSE First20(stem)

\* _extract_issuer_from_filename
ExtractIssuerFromFilename(stem) ==
    CASE Lower(stem) = "gold_ambetter_2025" -> "Ambetter"
      [] OTHER -> "Unknown Issuer"

\* filename.replace('_', ' ')
UnderscoresToSpaces(stem) ==
    CASE stem = "plan_0" -> "plan 0"
      [] stem = "plan_654321" -> "plan 654321"
      [] stem = "plan_bronze" -> "plan bronze"
      [] stem = "a_very_long_plan_document" -> "a very long plan document"
      [] stem = "Gold_Ambetter_2025" -> "Gold Ambetter 2025"
      [] stem = "test_plans" -> "test plans"
      [] OTHER -> stem

\* _extract_marketing_name_fixed.  Its three text patterns need a '|', the
\* words "Blue ACA" or the label "Plan Name"; no explored text holds one,
\* so the name is built from the file name.
ExtractMarketingNameFixed(t, stem) ==
    LET metal == CASE stem = "Gold_Ambetter_2025" -> "Gold"
                   [] OTHER -> ""
        issuer == ExtractIssuerFromFilename(stem)
    IN IF metal # "" /\ issuer # "Unknown Issuer"
       THEN CASE <<metal, issuer>> = <<"Gold", "Ambetter">> -> "Gold Ambetter Plan"
       ELSE UnderscoresToSpaces(stem)

\* _extract_plan_from_text of ingest_fixed.py: [raised |-> TRUE] when a
\* float() inside it raises, else the Plan
ExtractPlanFromText(t, stem) ==
    LET plan_id == ExtractPlanIdFixed(t, stem)
        marketing_name == ExtractMarketingNameFixed(t, stem)
        monthly_premium == ExtractPremiumFixed(t)
        deductible == ExtractDeductibleFixed(t)
        oop_max == ExtractOopMaxFixed(t)
        or0(o) == IF o = None THEN 0 ELSE o[1]
    IN IF deductible.raised \/ oop_max.raised THEN [raised |-> TRUE]
       ELSE [raised |-> FALSE,
             plan |-> Plan(
                [plan_id |-> IF plan_id = "" THEN SanitizedUpper(stem)
                             ELSE plan_id,
                 marketing_name |-> IF marketing_name = ""
                                    THEN UnderscoresToSpaces(stem)
                                    ELSE marketing_name,
                 metal_level |-> ExtractMetalLevelFixed(t, stem),
                 monthly_premium |-> or0(monthly_premium),
                 deductible_individual |-> Some(or0(deductible.value)),
                 oop_max_individual |-> Some(or0(oop_max.value)),
                 cost_sharing |-> ExtractCostSharingFixed(t),
                 administrative |-> ExtractAdministrativeDetails(t)])]

\* "except Exception: return None" around the extraction
PlanOrNone(outcome) == IF outcome.raised THEN None ELSE Some(outcome.plan)

\* _parse_pdf, _parse_docx: the Plan, or None when reading the file or the
\* extraction raised
ParseTextFile(f) ==
    IF f.content.kind # "text" THEN None
    ELSE PlanOrNone(ExtractPlanFromText(f.content.text, f.stem))

Supported == {".pdf", ".docx", ".json", ".csv"}

\* parse_document comparing the suffix as it is spelled
ParseDocumentCaseSensitive(f) ==
    CASE f.suffix \in {".pdf", ".docx"} ->
            [raised |-> FALSE, plan |-> ParseTextFile(f)]
      [] f.suffix = ".json" -> [raised |-> FALSE, plan |-> ParseJsonFile(f)]
      [] f.suffix = ".csv" ->
            [raised |-> FALSE,
             plan |-> IF ParseCsv(f) # <<>> THEN Some(ParseCsv(f)[1]) ELSE None]
      [] OTHER -> [raised |-> TRUE, plan |-> None]

\* parse_document: [raised |-> TRUE] for the ValueError of an unsupported
\* format, else the Optional Plan returned
ParseDocument(f) ==
    CASE Lower(f.suffix) \in {".pdf", ".docx"} ->
            [raised |-> FALSE, plan |-> ParseTextFile(f)]
      [] Lower(f.suffix) = ".json" ->
            [raised |-> FALSE, plan |-> ParseJsonFile(f)]
      [] Lower(f.suffix) = ".csv" ->
            [raised |-> FALSE,
             plan |-> IF ParseCsv(f) # <<>> THEN Some(ParseCsv(f)[1]) ELSE None]
      [] OTHER -> [raised |-> TRUE, plan |-> None]

\* "if plan: plans.append(plan)" on the outcome of parse_document; an
\* exception is caught and logged
Collect(collected, outcome) ==
    IF ~outcome.raised /\ outcome.plan # None
    THEN Append(collected, outcome.plan[1]) ELSE collected

\* one pass of the loop of parse_batch where a file that yields no plan
\* discards the plans collected so far
BatchStepAborting(collected, f) ==
    IF Lower(f.suffix) \in Supported
    THEN IF Collect(collected, ParseDocument(f)) = collected THEN <<>>
         ELSE Collect(collected, ParseDocument(f))
    ELSE collected

\* one pass of the loop of parse_batch: the list plans after the file f
BatchStep(collected, f) ==
    IF Lower(f.suffix) \in Supported
    THEN Collect(collected, ParseDocument(f))
    ELSE collected

\* parse_document(path) raising ValueError: unsupported format
ParseDocumentRaises ==
    /\ pc = "parse_document"
    /\ ParseDocument(files[1]).raised
    /\ error' = Some("ValueError: Unsupported file format")
    /\ pc' = "raised"
    /\ UNCHANGED <<client, plan_sources, hc_plans, plans, i, plan_analyses,
                   report, export_data, reparsed, kwargs, built,
                   files, parsed, rendered>>

\* parse_document(path) returning a Plan or None
ParseDocumentReturns ==
    /\ pc = "parse_document"
    /\ ~ParseDocument(files[1]).raised
    /\ parsed' = ParseDocument(files[1]).plan
    /\ pc' = "document_returned"
    /\ UNCHANGED <<client, plan_sources, hc_plans, plans, i, plan_analyses,
                   report, error, export_data, reparsed, kwargs, built,
                   files, rendered>>

\* DocumentParser._extract_metal_level(filename, text) of ingest.py on the
\* stem and the text of a readable document
ExtractMetalLevelReturns ==
    /\ pc = "_extract_metal_level"
    /\ parsed' = <<ExtractMetalLevel(files[1].stem, files[1].content.text)>>
    /\ pc' = "metal_level_returned"
    /\ UNCHANGED <<client, plan_sources, hc_plans, plans, i, plan_analyses,
                   report, error, export_data, reparsed, kwargs, built,
                   files, rendered>>

\* parse_csv(path)
ParseCsvReturns ==
    /\ pc = "parse_csv"
    /\ parsed' = ParseCsv(files[1])
    /\ pc' = "csv_returned"
    /\ UNCHANGED <<client, plan_sources, hc_plans, plans, i, plan_analyses,
                   report, error, export_data, reparsed, kwargs, built,
                   files, rendered>>

\* parse_batch: one pass of "for file_path in directory.glob('*')"
BatchNext ==
    /\ pc = "parse_batch"
    /\ i < Len(files)
    /\ parsed' = BatchStep(parsed, files[i + 1])
    /\ i' = i + 1
    /\ UNCHANGED <<pc, client, plan_sources, hc_plans, plans, plan_analyses,
                   report, error, export_data, reparsed, kwargs, built,
                   files, rendered>>

\* parse_batch: "return plans" after the last file
BatchReturn ==
    /\ pc = "parse_batch"
    /\ i = Len(files)
    /\ pc' = "batch_returned"
    /\ UNCHANGED <<client, plan_sources, hc_plans, plans, i, plan_analyses,
                   report, error, export_data, reparsed, kwargs, built,
                   files, parsed, rendered>>

\* PersonalInfo(**kwargs) when __post_init__ raises ValueError
PersonalInfoRaises ==
    /\ pc = "PersonalInfo"
    /\ ~PersonalInfo(kwargs).ok
    /\ error' = Some(PersonalInfo(kwargs).error)
    /\ pc' = "raised"
    /\ UNCHANGED <<client, plan_sources, hc_plans, plans, i, plan_analyses,
                   report, export_data, reparsed, kwargs, built,
                   files, parsed, rendered>>

\* PersonalInfo(**kwargs) when it returns the instance
PersonalInfoConstructed ==
    /\ pc = "PersonalInfo"
    /\ PersonalInfo(kwargs).ok
    /\ built' = Some(PersonalInfo(kwargs).value)
    /\ pc' = "personal_constructed"
    /\ UNCHANGED <<client, plan_sources, hc_plans, plans, i, plan_analyses,
                   report, error, export_data, reparsed, kwargs,
                   files, parsed, rendered>>

\* Client(personal=personal, ...), then analyze_plans is called with it
CreateClient ==
    /\ pc = "personal_constructed"
    /\ client' = [client EXCEPT !.personal = built[1]]
    /\ pc' = "analyze_plans"
    /\ UNCHANGED <<plan_sources, hc_plans, plans, i, plan_analyses, report,
                   error, export_data, reparsed, kwargs, built,
                   files, parsed, rendered>>

(***************************************************************************)
(* The inputs explored.  Every Plan is built by Plan(...), as in the code. *)
(***************************************************************************)
ProviderNames == <<"Dr A", "Dr B", "Dr C", "Dr D", "Dr E", "Dr F", "Dr G", "Dr H">>
MedNames == <<"Metformin", "Lisinopril", "Humira", "Ozempic", "Atorvastatin">>

Priorities == [keep_providers |-> 3, minimize_total_cost |-> 3,
               predictable_costs |-> 3, avoid_prior_auth |-> 3,
               simple_admin |-> 3]

\* the PersonalInfo of tests/test_end_to_end.py
TestPersonalKwargs ==
    [full_name |-> "Test User", zipcode |-> <<"1", "2", "3", "4", "5">>,
     household_size |-> 2, annual_income |-> 60000]

Client(providers, medications) ==
    [personal |-> PersonalInfo(TestPersonalKwargs).value,
     medical_profile |-> [providers |-> providers, medications |-> medications],
     priorities |-> Priorities]

EmptyClient == Client(<<>>, <<>>)

\* the client of tests/test_end_to_end.py, with a specialist added
TestClient ==
    Client(<<[name |-> "Dr A", specialty |-> "Primary Care",
              priority |-> "MUST_KEEP", visit_frequency |-> 4],
             [name |-> "Dr B", specialty |-> "Cardiology",
              priority |-> "NICE_TO_KEEP", visit_frequency |-> 2]>>,
           <<[name |-> "Metformin", annual_doses |-> 12,
              manufacturer_program |-> None]>>)

\* Plans of the ranking runs: modern-only, legacy-only and mixed field
\* names, every metal level, two plans that tie on every score.
RankPool ==
    {Plan([plan_id |-> "TEST001", marketing_name |-> "Test Bronze Plan",
           metal_level |-> "BRONZE", monthly_premium |-> 200,
           deductible |-> 7000, oop_max |-> 8700,
           copay_primary |-> 40, copay_specialist |-> 80]),
     Plan([plan_id |-> "TEST003", marketing_name |-> "Test Gold Plan",
           metal_level |-> "GOLD", monthly_premium |-> 500,
           deductible |-> 1500, oop_max |-> 6000,
           formulary |-> [Metformin |-> "TIER1"],
           cost_sharing |-> [primary_care_copay |-> 15, specialist_copay |-> 30]]),
     Plan([plan_id |-> "PLAT005", marketing_name |-> "Platinum Plan",
           metal_level |-> "PLATINUM", monthly_premium |-> 500,
           deductible |-> 1500, oop_max |-> 6000,
           formulary |-> [Metformin |-> "TIER1"],
           cost_sharing |-> [primary_care_copay |-> 15, specialist_copay |-> 30]]),
     Plan([plan_id |-> "LEG002", marketing_name |-> "Legacy Silver Plan",
           metal_level |-> "SILVER", monthly_premium |-> 350,
           deductible_individual |-> Some(500),
           oop_max_individual |-> Some(3000),
           network |-> [n \in {"Dr A"} |-> "IN"],
           formulary |-> [Metformin |-> "COVERED"],
           administrative |-> [prior_auth_common |-> TRUE,
                               uses_maximizer |-> FALSE, plan_rating |-> 45]]),
     Plan([plan_id |-> "CAT004", marketing_name |-> "Catastrophic Plan",
           metal_level |-> "CATASTROPHIC", monthly_premium |-> 100,
           deductible |-> 8000, deductible_individual |-> Some(9000),
           oop_max |-> 9000, oop_max_individual |-> Some(9000),
           requires_referrals |-> TRUE,
           administrative |-> [prior_auth_common |-> TRUE,
                               uses_maximizer |-> TRUE, plan_rating |-> 25]])}

\* Ranking runs: every list of up to MaxPlans pool plans, the empty one too.
RankInputs ==
    {[client |-> c, plans |-> ps] :
        c \in {EmptyClient, TestClient}, ps \in SeqsUpTo(RankPool, MaxPlans)}

\* The non-decreasing sequences of up to n indices in 1..m: one listing of
\* every multiset of up to n cases.
NonDecreasingUpTo(m, n) ==
    UNION {{c \in [1..k -> 1..m] : \A j \in 1..(k - 1) : c[j] <= c[j + 1]} :
           k \in 0..n}

\* Provider-network runs: up to MaxProviders providers, each must-keep or
\* nice-to-keep, each IN, OUT or missing in the plan's network dict.  The
\* scorer counts over the list, so each multiset of cases is listed once.
ProviderCases == <<<<"MUST_KEEP", "IN">>, <<"MUST_KEEP", "OUT">>,
                   <<"MUST_KEEP", "missing">>, <<"NICE_TO_KEEP", "IN">>,
                   <<"NICE_TO_KEEP", "OUT">>, <<"NICE_TO_KEEP", "missing">>>>

ProviderInputs ==
    {[client |->
         Client([k \in DOMAIN cs |->
                    [name |-> ProviderNames[k], specialty |-> "Cardiology",
                     priority |-> ProviderCases[cs[k]][1],
                     visit_frequency |-> 1]], <<>>),
      plans |->
         <<Plan([plan_id |-> "NET", metal_level |-> "GOLD",
                 monthly_premium |-> 300, deductible |-> 1000, oop_max |-> 5000,
                 requires_referrals |-> ref,
                 network |->
                    [nm \in {ProviderNames[k] :
                        k \in {j \in DOMAIN cs :
                                  ProviderCases[cs[j]][2] # "missing"}} |->
                       LET k == CHOOSE j \in DOMAIN cs : ProviderNames[j] = nm
                       IN ProviderCases[cs[k]][2]]])>>] :
        cs \in NonDecreasingUpTo(Len(ProviderCases), MaxProviders),
        ref \in BOOLEAN}

\* Medication runs: up to MaxMeds medications, with or without a
\* manufacturer program, against a plan's formulary and prior-auth flags;
\* each multiset of cases is listed once.
MedPrograms == <<None, Some([exists |-> FALSE, expected_copay |-> None]),
                 Some([exists |-> TRUE, expected_copay |-> Some(5)])>>
MedStatuses == <<"missing", "NOT", "COVERED", "TIER3">>

MedCases ==
    [k \in 1..(Len(MedPrograms) * Len(MedStatuses)) |->
        <<MedPrograms[((k - 1) \div Len(MedStatuses)) + 1],
          MedStatuses[((k - 1) % Len(MedStatuses)) + 1]>>]

MedInputs ==
    {[client |->
         Client(<<>>, [k \in DOMAIN cs |->
                          [name |-> MedNames[k], annual_doses |-> 12,
                           manufacturer_program |-> MedCases[cs[k]][1]]]),
      plans |->
         <<Plan([plan_id |-> "RX", metal_level |-> "SILVER",
                 monthly_premium |-> 300, deductible |-> 2000, oop_max |-> 7000,
                 formulary |->
                    [nm \in {MedNames[k] :
                        k \in {j \in DOMAIN cs : MedCases[cs[j]][2] # "missing"}} |->
                       LET k == CHOOSE j \in DOMAIN cs : MedNames[j] = nm
                       IN MedCases[cs[k]][2]],
                 administrative |-> [prior_auth_common |-> pa,
                                     uses_maximizer |-> mx,
                                     plan_rating |-> 30]])>>] :
        cs \in NonDecreasingUpTo(Len(MedCases), MaxMeds),
        pa \in BOOLEAN, mx \in BOOLEAN}

\* Cost runs: the test client's two providers and up to MaxMeds
\* medications, each without a program, with a program without a copay or
\* with a program with a copay of 5, on every formulary status; a plan
\* whose cap is reached only by dear medications and one always at its cap.
CostPrograms == <<None, Some([exists |-> TRUE, expected_copay |-> None]),
                  Some([exists |-> TRUE, expected_copay |-> Some(5)])>>
CostStatuses == <<"missing", "NOT", "COVERED", "TIER1", "TIER2", "TIER3", "TIER4">>

CostCases ==
    [k \in 1..(Len(CostPrograms) * Len(CostStatuses)) |->
        <<CostPrograms[((k - 1) \div Len(CostStatuses)) + 1],
          CostStatuses[((k - 1) % Len(CostStatuses)) + 1]>>]

CostInputs ==
    {[client |->
         Client(TestClient.medical_profile.providers,
                [k \in DOMAIN cs |->
                    [name |-> MedNames[k], annual_doses |-> 12,
                     manufacturer_program |-> CostCases[cs[k]][1]]]),
      plans |->
         [n \in 1..2 |->
            Plan([plan_id |-> IF n = 1 THEN "ROOMY" ELSE "TIGHT",
                  metal_level |-> "SILVER", monthly_premium |-> 300,
                  deductible |-> IF n = 1 THEN 2000 ELSE 7000,
                  oop_max |-> IF n = 1 THEN 9000 ELSE 7500,
                  cost_sharing |-> [primary_care_copay |-> 20,
                                    specialist_copay |-> 50],
                  formulary |->
                     [nm \in {MedNames[k] :
                         k \in {j \in DOMAIN cs : CostCases[cs[j]][2] # "missing"}} |->
                        LET k == CHOOSE j \in DOMAIN cs : MedNames[j] = nm
                        IN CostCases[cs[k]][2]]])]] :
        cs \in NonDecreasingUpTo(Len(CostCases), MaxMeds)}

\* Deductibles and out-of-pocket maxima on and next to the tier thresholds
FinDeductibles == {0, 500, 501, 1000, 1001, 2000, 2001}
FinOopMaxes == {3000, 3001, 5000, 5001, 7000, 7001, 8000}

FinInputs ==
    {[client |-> TestClient,
      plans |-> <<Plan([plan_id |-> "FIN", metal_level |-> "SILVER",
                        monthly_premium |-> 300, deductible |-> d,
                        oop_max |-> o])>>] :
        d \in FinDeductibles, o \in FinOopMaxes}

\* Priority weights other than the default 3s (each weight is 1..5)
PriorityPool ==
    {[keep_providers |-> 1, minimize_total_cost |-> 1, predictable_costs |-> 1,
      avoid_prior_auth |-> 1, simple_admin |-> 1],
     [keep_providers |-> 5, minimize_total_cost |-> 5, predictable_costs |-> 5,
      avoid_prior_auth |-> 5, simple_admin |-> 5],
     [keep_providers |-> 5, minimize_total_cost |-> 1, predictable_costs |-> 4,
      avoid_prior_auth |-> 2, simple_admin |-> 3],
     [keep_providers |-> 1, minimize_total_cost |-> 5, predictable_costs |-> 2,
      avoid_prior_auth |-> 4, simple_admin |-> 3]}

\* Runs of the test client under each of these weightings
PriorityInputs ==
    {[client |-> [TestClient EXCEPT !.priorities = pr], plans |-> ps] :
        pr \in PriorityPool, ps \in SeqsUpTo(RankPool, 2)}

EngineInputs ==
    RankInputs \cup ProviderInputs \cup MedInputs \cup CostInputs
        \cup FinInputs \cup PriorityInputs

Unreadable == [kind |-> "unreadable"]
JsonContent(d) == [kind |-> "json", data |-> d]
CsvContent(r) == [kind |-> "csv", rows |-> r]
TextContent(t) == [kind |-> "text", text |-> t]
File(stem, suffix, content) ==
    [stem |-> stem, suffix |-> suffix, content |-> content]

\* Files that state the copays of a plan: a JSON object and a CSV row with
\* copay_primary / copay_specialist, a JSON object with a cost_sharing
\* object, and a PDF whose text names both copays.
CopayJson(id) ==
    [plan_id |-> JStr(id), marketing_name |-> JStr("Copay Plan"),
     issuer |-> JStr("Copay Insurance"), metal_level |-> JStr("gold"),
     monthly_premium |-> JNum(350), deductible |-> JNum(500),
     oop_max |-> JNum(8700)]

CopayFiles ==
    <<File("copay", ".json",
           JsonContent(CopayJson("COPAYJ")
                       @@ [copay_primary |-> JNum(40),
                           copay_specialist |-> JNum(80)])),
      File("nested", ".json",
           JsonContent(CopayJson("NESTED")
                       @@ [cost_sharing |->
                              JObj([primary_care_copay |-> 40,
                                    specialist_copay |-> 80])])),
      File("copay", ".csv",
           CsvContent(<<[plan_id |-> JStr("COPAYC"),
                         marketing_name |-> JStr("Copay Plan"),
                         issuer |-> JStr("Copay Insurance"),
                         metal_level |-> JStr("gold"),
                         monthly_premium |-> JStr("350"),
                         deductible |-> JStr("500"),
                         oop_max |-> JStr("8700"),
                         copay_primary |-> JStr("40"),
                         copay_specialist |-> JStr("80")]>>)),
      File("scan", ".pdf",
           TextContent(<<"PCP", "$40", "Specialist", "$80">>))>>

\* parse_batch over a directory listed in the order of CopayFiles
CopayPlans ==
    BatchStep(BatchStep(BatchStep(BatchStep(<<>>, CopayFiles[1]),
                                  CopayFiles[2]), CopayFiles[3]), CopayFiles[4])

\* analyze(): what each plan source yields
SourcePool ==
    LET a == CHOOSE p \in RankPool : p.plan_id = "TEST001"
        b == CHOOSE p \in RankPool : p.plan_id = "LEG002"
    IN {[kind |-> "dir", parsed |-> <<>>],
        [kind |-> "dir", parsed |-> <<a, b>>],
        [kind |-> "dir", parsed |-> CopayPlans],
        [kind |-> "file", parsed |-> <<>>],
        [kind |-> "file", parsed |-> <<b>>],
        [kind |-> "unsupported_file", parsed |-> <<>>],
        [kind |-> "missing", parsed |-> <<>>]}

FetchedPool ==
    LET g == CHOOSE p \in RankPool : p.plan_id = "TEST003"
    IN {None, Some(<<>>), Some(<<g>>)}

\* Plan(...) keyword arguments: each of the four fields omitted or given
KwargsPool ==
    LET ded == {EmptyDict} \cup {[deductible |-> v] : v \in {0, 1000}}
        dedi == {EmptyDict} \cup
                {[deductible_individual |-> v] : v \in {None, Some(0), Some(2000)}}
        oop == {EmptyDict} \cup {[oop_max |-> v] : v \in {0, 5000}}
        oopi == {EmptyDict} \cup
                {[oop_max_individual |-> v] : v \in {None, Some(0), Some(7000)}}
    IN {[plan_id |-> "K", metal_level |-> "GOLD"] @@ a @@ b @@ c @@ d :
            a \in ded, b \in dedi, c \in oop, d \in oopi}

\* JSON objects: those of test_batch_parsing, one with the modern keys as
\* numbers, one with a currency string, one with the legacy keys
BatchJson(id, name, premium) ==
    [plan_id |-> JStr(id), marketing_name |-> JStr(name),
     issuer |-> JStr("Batch Insurance"), metal_level |-> JStr("silver"),
     monthly_premium |-> JNum(premium)]

\* CSV rows: the two of test_csv_parsing, rows whose premium is no number,
\* a short row, a row with an unknown plan type, a row of legacy columns
CsvRow(id, name, metal, premium, deductible, oop_max) ==
    [plan_id |-> JStr(id), marketing_name |-> JStr(name),
     issuer |-> JStr("CSV Insurance"), metal_level |-> JStr(metal),
     monthly_premium |-> JStr(premium), deductible |-> JStr(deductible),
     oop_max |-> oop_max]

RowPool ==
    {CsvRow("CSV001", "CSV Test Plan 1", "bronze", "250", "5000", JStr("8700")),
     CsvRow("CSV002", "CSV Test Plan 2", "silver", "350", "3500", JStr("7500")),
     CsvRow("CSV003", "CSV Test Plan 3", "gold", "abc", "3500", JStr("7500")),
     CsvRow("CSV004", "CSV Test Plan 4", "gold", "1,500", "3500", JStr("7500")),
     CsvRow("CSV005", "CSV Test Plan 5", "silver", "350", "3500", JNull),
     CsvRow("CSV006", "CSV Test Plan 6", "silver", "350", "3500", JStr("7500"))
        @@ [plan_type |-> JStr("XYZ")],
     [plan_id |-> JStr("CSV007"), marketing_name |-> JStr("CSV Test Plan 7"),
      metal_level |-> JStr("Gold"), monthly_premium |-> JStr("500"),
      deductible_individual |-> JStr("1500"),
      oop_max_individual |-> JStr("5000"),
      plan_type |-> JStr("hmo"), requires_referrals |-> JStr("True")]}

\* Objects and rows that carry both generations of the deductible and
\* out-of-pocket field names: the modern values 0, and the modern values
\* different from the legacy ones
BothGenerations(id, deductible, oop_max) ==
    [plan_id |-> JStr(id), marketing_name |-> JStr("Two Generations"),
     issuer |-> JStr("Legacy Insurance"), metal_level |-> JStr("silver"),
     monthly_premium |-> JStr("350"),
     deductible |-> deductible, deductible_individual |-> JStr("500"),
     oop_max |-> oop_max, oop_max_individual |-> JStr("3000")]

GenerationCsv ==
    File("generations", ".csv",
         CsvContent(<<BothGenerations("GEN0", JStr("0"), JStr("0")),
                      BothGenerations("GENB", JStr("1500"), JStr("5000"))>>))

GenerationJson ==
    {File("modern_zero", ".json",
          JsonContent(BothGenerations("GENJ0", JNum(0), JNum(0)))),
     File("both", ".json",
          JsonContent(BothGenerations("GENJB", JNum(1500), JNum(5000)))),
     File("legacy", ".json",
          JsonContent([plan_id |-> JStr("GENJL"), metal_level |-> JStr("silver"),
                       monthly_premium |-> JNum(350),
                       deductible_individual |-> JNum(500),
                       oop_max_individual |-> JNum(3000)]))}

CsvFiles ==
    {File("test_plans", sfx, CsvContent(rows)) :
        sfx \in {".csv"}, rows \in SeqsUpTo(RowPool, MaxRows)}
    \cup {File("locked", ".csv", Unreadable), GenerationCsv}

\* Texts: every text of up to MaxTokens words over a deductible label, two
\* amounts and a qualifier, and texts with the other labels
TextVocab == {"Deductible", "$1,500", "$,", "Individual"}

CuratedTexts ==
    {<<"lorem", "ipsum">>,
     <<"Monthly", "premium", "$250", "Deductible", "$1,500", "Individual",
       "Out-of-pocket", "maximum", "$8,700", "Individual">>,
     <<"premium", "$0">>,
     <<"premium", "$1,500">>,
     <<"Was", "$0", "premium", "$250">>,
     <<"Catastrophic", "plan">>,
     <<"gold", "Catastrophic">>,
     <<"Plan", "ID:", "12345AZ0010001", "gold">>,
     <<"ID", "1234567">>,
     <<"Plan", "ID:", "ABC123">>,
     <<"Referral", "required">>,
     <<"Prior", "authorization">>,
     <<"PCP", "$40", "Specialist", "$80">>,
     <<"Out-of-pocket", "maximum", "$,">>,
     <<"Individual", "Deductible:", "$500">>}

TextInputs == CuratedTexts \cup SeqsUpTo(TextVocab, MaxTokens)

TextFiles ==
    {File("scan", sfx, TextContent(t)) :
        sfx \in {".pdf", ".docx", ".PDF"}, t \in TextInputs}
    \cup {File(stem, ".pdf", TextContent(<<>>)) :
            stem \in {"plan_654321", "Gold_Ambetter_2025", "plan_bronze",
                      "a_very_long_plan_document"}}
    \cup {File("broken", sfx, Unreadable) : sfx \in {".pdf", ".docx"}}

JsonFiles ==
    {File("plan_0", ".json", JsonContent(BatchJson("BATCH000", "Batch Plan 0", 300))),
     File("plan_1", ".json", JsonContent(BatchJson("BATCH001", "Batch Plan 1", 350))),
     File("plan_2", ".json", JsonContent(BatchJson("BATCH002", "Batch Plan 2", 400))),
     File("UP", ".JSON",
          JsonContent(BatchJson("UP", "Upper", 300)
                      @@ [deductible |-> JNum(2000), oop_max |-> JNum(7000)])),
     File("comma", ".json",
          JsonContent([plan_id |-> JStr("COMMA"), metal_level |-> JStr("gold"),
                       monthly_premium |-> JStr("1,500")])),
     File("bad", ".json", Unreadable)}

UnsupportedFiles ==
    {File("notes", ".txt", TextContent(<<"gold">>)),
     File("NOTES", ".TXT", Unreadable),
     File("sheet", ".xlsx", Unreadable),
     File("README", "", TextContent(<<"Deductible", "$1,500">>))}

FilePool ==
    JsonFiles \cup CsvFiles \cup TextFiles \cup UnsupportedFiles
    \cup {CopayFiles[k] : k \in DOMAIN CopayFiles} \cup GenerationJson

\* The directories of parse_batch hold files of these names: JSON, CSV and
\* PDF files that parse, a corrupt JSON file, a JSON file with a currency
\* string, a CSV file without a convertible row, an unreadable DOCX file
\* and a text file.  glob yields the files of a directory in no
\* particular order.
DirPool ==
    JsonFiles
    \cup {File("test_plans", ".csv",
               CsvContent(<<CHOOSE r \in RowPool : r.plan_id = JStr("CSV001"),
                            CHOOSE r \in RowPool : r.plan_id = JStr("CSV003"),
                            CHOOSE r \in RowPool : r.plan_id = JStr("CSV002")>>)),
          File("empty", ".csv",
               CsvContent(<<CHOOSE r \in RowPool : r.plan_id = JStr("CSV003")>>)),
          File("scan", ".pdf", TextContent(<<"Deductible", "$1,500", "Individual">>)),
          File("broken", ".docx", Unreadable),
          File("notes", ".txt", TextContent(<<"gold">>))}

Listings ==
    {s \in SeqsUpTo(DirPool, MaxFiles) :
        \A j, k \in DOMAIN s : j # k => s[j] # s[k]}

\* PersonalInfo(...) keyword arguments: the ZIP strings of the
\* documentation ("85001", "850011234", "85001-1234", "abc", ""), a string
\* with letters between its digits, and every string of up to MaxZipLen
\* characters over two digits and a separator.
ZipExamples ==
    {<<"8", "5", "0", "0", "1">>,
     <<"8", "5", "0", "0", "1", "1", "2", "3", "4">>,
     <<"8", "5", "0", "0", "1", "-", "1", "2", "3", "4">>,
     <<"a", "b", "c">>,
     <<"A", "Z", " ", "8", "5", "0", "0", "1">>,
     <<"8", "a", "5", "b", "0", "c", "0", "d", "1", "9">>}

ZipInputs == ZipExamples \cup SeqsUpTo({"1", "2", "-"}, MaxZipLen)

PersonalKwargsPool ==
    {[full_name |-> "Test User", zipcode |-> z, household_size |-> h,
      annual_income |-> inc] :
        z \in ZipInputs, h \in {0, 1, 2}, inc \in {0 - 1, 0}}

Idle ==
    /\ i = 0
    /\ plan_analyses = <<>>
    /\ report = None
    /\ error = None
    /\ export_data = None
    /\ reparsed = None
    /\ built = None
    /\ parsed = <<>>
    /\ rendered = None

Init ==
    /\ Idle
    /\ \/ /\ pc = "analyze_plans"
          /\ \E inp \in EngineInputs : client = inp.client /\ plans = inp.plans
          /\ plan_sources = <<>>
          /\ hc_plans = None
          /\ kwargs = EmptyDict
          /\ files = <<>>
       \/ /\ pc = "analyze"
          /\ client = TestClient
          /\ plan_sources \in SeqsUpTo(SourcePool, MaxSources)
          /\ hc_plans \in FetchedPool
          /\ plans = <<>>
          /\ kwargs = EmptyDict
          /\ files = <<>>
       \/ /\ pc = "Plan"
          /\ client = EmptyClient
          /\ plan_sources = <<>>
          /\ hc_plans = None
          /\ plans = <<>>
          /\ kwargs \in KwargsPool
          /\ files = <<>>
       \/ /\ pc \in {"parse_document", "parse_csv", "parse_batch"}
          /\ client = EmptyClient
          /\ plan_sources = <<>>
          /\ hc_plans = None
          /\ plans = <<>>
          /\ kwargs = EmptyDict
          /\ files \in CASE pc = "parse_document" -> {<<f>> : f \in FilePool}
                         [] pc = "parse_csv" -> {<<f>> : f \in CsvFiles}
                         [] pc = "parse_batch" -> Listings
       \/ /\ pc = "_extract_metal_level"
          /\ client = EmptyClient
          /\ plan_sources = <<>>
          /\ hc_plans = None
          /\ plans = <<>>
          /\ kwargs = EmptyDict
          /\ files \in {<<f>> : f \in {g \in TextFiles : g.content.kind = "text"}}
       \/ /\ pc = "PersonalInfo"
          /\ client = EmptyClient
          /\ plan_sources = <<>>
          /\ hc_plans = None
          /\ plans = <<CHOOSE p \in RankPool : p.plan_id = "LEG002">>
          /\ kwargs \in PersonalKwargsPool
          /\ files = <<>>

Next ==
    \/ AnalyzePlansEmpty
    \/ AnalyzePlansBegin
    \/ ScoreNext
    \/ RankAndReport
    \/ AnalyzeUnsupported
    \/ AnalyzeNoPlans
    \/ AnalyzeRun
    \/ GenerateJsonExport
    \/ ReparseExport
    \/ GenerateScoringMatrix
    \/ GenerateExecutiveSummary
    \/ GenerateScoringMatrixCsv
    \/ ConstructPlan
    \/ PersonalInfoRaises
    \/ PersonalInfoConstructed
    \/ CreateClient
    \/ ParseDocumentRaises
    \/ ParseDocumentReturns
    \/ ExtractMetalLevelReturns
    \/ ParseCsvReturns
    \/ BatchNext
    \/ BatchReturn

Spec == Init /\ [][Next]_vars

(***************************************************************************)
(* Helpers of the properties                                               *)
(***************************************************************************)
Analyses == {plan_analyses[k] : k \in DOMAIN plan_analyses}

SubScores(m) ==
    {m.provider_network_score, m.medication_coverage_score, m.total_cost_score,
     m.financial_protection_score, m.administrative_simplicity_score,
     m.plan_quality_score}

InRange(x) == x.d > 0 /\ 0 <= x.n /\ x.n <= 10 * x.d

\* 100 * (the weighted sum of the six sub-scores), as numerator and
\* denominator over the product of the six denominators
WeightedDen(m) ==
    m.provider_network_score.d * m.medication_coverage_score.d
    * m.total_cost_score.d * m.financial_protection_score.d
    * m.administrative_simplicity_score.d * m.plan_quality_score.d

WeightedNum(m) ==
    LET D == WeightedDen(m)
        T(w, x) == w * x.n * (D \div x.d)
    IN T(30, m.provider_network_score) + T(25, m.medication_coverage_score)
       + T(20, m.total_cost_score) + T(10, m.financial_protection_score)
       + T(10, m.administrative_simplicity_score) + T(5, m.plan_quality_score)

Abs(x) == IF x < 0 THEN -x ELSE x

\* h is N/D rounded to the nearest integer, an exact half going to the even one
IsRounded(h, N, D) ==
    /\ 2 * Abs(N - h * D) <= D
    /\ (2 * Abs(N - h * D) = D => h % 2 = 0)

Costs == {a.estimated_annual_cost : a \in Analyses}
MinCost == CHOOSE x \in Costs : \A y \in Costs : x <= y
MaxCost == CHOOSE x \in Costs : \A y \in Costs : x >= y

Ten == [n |-> 10, d |-> 1]
Zero == [n |-> 0, d |-> 1]

MustKeep == {k \in DOMAIN client.medical_profile.providers :
                client.medical_profile.providers[k].priority = "MUST_KEEP"}

InNetwork(plan, k) ==
    LET nm == client.medical_profile.providers[k].name
    IN nm \in DOMAIN plan.network /\ plan.network[nm] = "IN"

\* The step function of C7 on the must-keep providers of the client
ProviderStep(plan) ==
    LET total == Cardinality(MustKeep)
        inn == Cardinality({k \in MustKeep : InNetwork(plan, k)})
    IN IF total = 0 THEN 10
       ELSE IF inn = total THEN 10
       ELSE IF 5 * inn >= 4 * total THEN 7
       ELSE IF 2 * inn >= total THEN 4
       ELSE 0

(***************************************************************************)
(* Properties                                                              *)
(***************************************************************************)
\* C1: every one of the six sub-scores of every PlanAnalysis that score_plan
\* produced lies in [0, 10].
C1_SubScoresInRange ==
    \A a \in Analyses : \A x \in SubScores(a.metrics) : InRange(x)

\* C1 witness: a finished run whose medication score was clamped: the mean
\* with its adjustments is above 10 and the score is 10.
C1_Witness ==
    /\ pc = "done"
    /\ \E a \in Analyses :
          /\ a.metrics.medication_coverage_score = Ten
          /\ client.medical_profile.medications # <<>>
          /\ RatLess(Ten, MedicationCoverageUnclamped(client, a.plan))

\* C2: weighted_total_score is the sum of the six sub-scores times the
\* weights 0.30, 0.25, 0.20, 0.10, 0.10, 0.05, rounded to 2 decimals, and
\* the six weights sum to 1.00.
C2_WeightedTotal ==
    /\ WEIGHTS.provider_network + WEIGHTS.medication_coverage
       + WEIGHTS.total_cost + WEIGHTS.financial_protection
       + WEIGHTS.administrative_simplicity + WEIGHTS.plan_quality = 100
    /\ \A a \in Analyses :
          IsRounded(a.metrics.weighted_total_score,
                    WeightedNum(a.metrics), WeightedDen(a.metrics))

\* C2 witness: a scored plan whose weighted sum is not a whole number of
\* hundredths, so that the rounding acted, and whose provider and
\* medication scores differ.
C2_Witness ==
    /\ pc = "done"
    /\ \E a \in Analyses :
          /\ WeightedNum(a.metrics) % WeightedDen(a.metrics) # 0
          /\ a.metrics.provider_network_score # a.metrics.medication_coverage_score

\* C3: the report's plan_analyses holds every input plan once, in
\* non-increasing order of weighted_total_score, plans of equal score in
\* their input order.
C3_SortedStable ==
    pc = "done" =>
        LET pa == report[1].plan_analyses
        IN /\ Len(pa) = Len(plans)
           /\ {pa[k].plan_ref : k \in DOMAIN pa} = DOMAIN plans
           /\ \A k \in DOMAIN pa : pa[k].plan = plans[pa[k].plan_ref]
           /\ \A j, k \in DOMAIN pa :
                 j < k =>
                    /\ Key(pa[j]) >= Key(pa[k])
                    /\ (Key(pa[j]) = Key(pa[k]) => pa[j].plan_ref < pa[k].plan_ref)

\* C3 witness: a report where the sort moved a plan forward and where two
\* plans of equal score, not adjacent in the input, kept their order.
C3_Witness ==
    /\ pc = "done"
    /\ LET pa == report[1].plan_analyses
       IN /\ \E j, k \in DOMAIN pa :
                /\ j < k
                /\ Key(pa[j]) = Key(pa[k])
                /\ pa[j].plan # pa[k].plan
                /\ pa[k].plan_ref > pa[j].plan_ref + 1
          /\ \E j, k \in DOMAIN pa : j < k /\ pa[j].plan_ref > pa[k].plan_ref

\* C4: top_recommendations is the first min(3, n) entries of plan_analyses,
\* in the same order.
C4_TopThree ==
    pc = "done" =>
        LET pa == report[1].plan_analyses
            top == report[1].top_recommendations
        IN /\ Len(top) = (IF Len(plans) < 3 THEN Len(plans) ELSE 3)
           /\ \A k \in DOMAIN top : top[k] = pa[k]

\* C4 witness: a report over more than three plans, whose fourth entry is
\* left out of top_recommendations.
C4_Witness ==
    /\ pc = "done"
    /\ Len(report[1].plan_analyses) > 3
    /\ Len(report[1].top_recommendations) = 3

\* C5: analyze_plans on an empty list, and analyze when no source yields a
\* plan, end in an error with no AnalysisReport; no report exists without
\* at least one plan.
C5_EmptyInputFails ==
    /\ [](report # None => plans # <<>> /\ report[1].plan_analyses # <<>>)
    /\ [](pc = "raised" => error # None /\ report = None)
    /\ [][((pc = "analyze_plans" /\ plans = <<>>)
           \/ (pc = "analyze" /\ ~LoadRaises(plan_sources)
               /\ LoadPlans(plan_sources, hc_plans) = <<>>))
          => (pc' = "raised" /\ error' # None /\ report' = None)]_vars

\* C5 witness: analyze has raised after two plan sources and a fetch that
\* all yielded no plan.
C5_Witness ==
    /\ pc = "raised"
    /\ Len(plan_sources) = 2
    /\ hc_plans = Some(<<>>)
    /\ error = Some("ValueError: No plans available for analysis")
    /\ report = None

\* C6: over the estimated annual costs of the comparison set, a plan's
\* total-cost score is 10*(max - cost)/(max - min) when the costs differ
\* (so the cheapest scores 10, the dearest 0, a dearer plan strictly less)
\* and 10 for every plan when all costs are equal, a set of one included.
C6_TotalCost ==
    pc = "done" =>
        /\ \A a \in Analyses :
              LET x == a.metrics.total_cost_score
              IN /\ a.estimated_annual_cost = MinCost => x = Ten
                 /\ MaxCost = MinCost => x = Ten
                 /\ MaxCost # MinCost =>
                       /\ x.n * (MaxCost - MinCost)
                            = 10 * (MaxCost - a.estimated_annual_cost) * x.d
                       /\ (a.estimated_annual_cost = MaxCost => x = Zero)
        /\ \A a, b \in Analyses :
              a.estimated_annual_cost > b.estimated_annual_cost =>
                  RatLess(a.metrics.total_cost_score, b.metrics.total_cost_score)

\* C6 witness: a report with a plan strictly between the cheapest and the
\* dearest, scoring strictly between 0 and 10.
C6_Witness ==
    /\ pc = "done"
    /\ \E a \in Analyses :
          /\ MinCost < a.estimated_annual_cost
          /\ a.estimated_annual_cost < MaxCost
          /\ RatLess(Zero, a.metrics.total_cost_score)
          /\ RatLess(a.metrics.total_cost_score, Ten)

\* C7: the provider-network score is the step function (10, 7, 4, 0) of the
\* share of must-keep providers in network, 10 without must-keep providers,
\* less 2 (not below 0) when the plan requires referrals; nice-to-keep
\* providers do not enter it.
C7_ProviderNetwork ==
    \A a \in Analyses :
        LET step == ProviderStep(a.plan)
            expected == IF a.plan.requires_referrals
                        THEN (IF step >= 2 THEN step - 2 ELSE 0) ELSE step
            must_only ==
                [client EXCEPT !.medical_profile.providers =
                    SelectSeq(@, LAMBDA p : p.priority = "MUST_KEEP")]
        IN /\ a.metrics.provider_network_score = [n |-> expected, d |-> 1]
           /\ a.metrics.provider_network_score
                = ScoreProviderNetwork(must_only, a.plan)

\* C7 witness: a plan requiring referrals with four of five must-keep
\* providers in network (the 80% step, 7 - 2 = 5) and a nice-to-keep
\* provider in network.
C7_Witness ==
    /\ pc = "done"
    /\ \E a \in Analyses :
          /\ a.plan.requires_referrals
          /\ Cardinality(MustKeep) = 5
          /\ Cardinality({k \in MustKeep : InNetwork(a.plan, k)}) = 4
          /\ a.metrics.provider_network_score = [n |-> 5, d |-> 1]
          /\ \E k \in DOMAIN client.medical_profile.providers :
                k \notin MustKeep /\ InNetwork(a.plan, k)

\* C9: Plan(...) with deductible omitted or 0 takes deductible_individual
\* when that is given, likewise oop_max; a non-zero modern value stays; and
\* running __post_init__ again on the constructed Plan changes nothing.
C9_LegacyReconciliation ==
    pc = "constructed" =>
        LET p == built[1]
            ded == Get(kwargs, "deductible", 0)
            dedi == Get(kwargs, "deductible_individual", None)
            oop == Get(kwargs, "oop_max", 0)
            oopi == Get(kwargs, "oop_max_individual", None)
        IN /\ (ded = 0 /\ dedi # None) => p.deductible = dedi[1]
           /\ (ded = 0 /\ dedi = None) => p.deductible = 0
           /\ ded # 0 => p.deductible = ded
           /\ (oop = 0 /\ oopi # None) => p.oop_max = oopi[1]
           /\ (oop = 0 /\ oopi = None) => p.oop_max = 0
           /\ oop # 0 => p.oop_max = oop
           /\ p.deductible_individual = dedi
           /\ p.oop_max_individual = oopi
           /\ PostInit(p) = p

\* C9 witness: a Plan built with only deductible_individual = 2000 has
\* deductible 2000, while its non-zero oop_max 5000 stood against
\* oop_max_individual = 7000.
C9_Witness ==
    /\ pc = "constructed"
    /\ "deductible" \notin DOMAIN kwargs
    /\ Get(kwargs, "deductible_individual", None) = Some(2000)
    /\ built[1].deductible = 2000
    /\ Get(kwargs, "oop_max", 0) = 5000
    /\ Get(kwargs, "oop_max_individual", None) = Some(7000)
    /\ built[1].oop_max = 5000

\* C10: every plan of a report, exported by generate_json_export and read
\* back by parse_json, comes back as a Plan with the same monthly premium,
\* deductible, out-of-pocket maximum, metal level and plan_id.
C10_RoundTrip ==
    pc = "reparsed" =>
        \A k \in DOMAIN report[1].plan_analyses :
            LET p == report[1].plan_analyses[k].plan
                q == reparsed[1][k]
            IN /\ q # None
               /\ q[1].monthly_premium = p.monthly_premium
               /\ q[1].deductible = p.deductible
               /\ q[1].oop_max = p.oop_max
               /\ q[1].metal_level = p.metal_level
               /\ q[1].plan_id = p.plan_id

\* The first n digit characters of the string s, in their order
RECURSIVE FirstDigits(_, _)
FirstDigits(s, n) ==
    IF s = <<>> \/ n = 0 THEN <<>>
    ELSE IF Head(s) \in Digits
    THEN <<Head(s)>> \o FirstDigits(Tail(s), n - 1)
    ELSE FirstDigits(Tail(s), n)

DigitCount(s) == Cardinality({k \in DOMAIN s : s[k] \in Digits})

ValidPersonal(p) ==
    /\ Len(p.zipcode) = 5
    /\ \A k \in DOMAIN p.zipcode : p.zipcode[k] \in Digits
    /\ p.household_size >= 1
    /\ p.annual_income >= 0

\* C11: PersonalInfo(...) either raises, exactly when the ZIP has fewer than
\* 5 digit characters, household_size < 1 or annual_income < 0, or yields
\* an instance whose zipcode is the first five digit characters of the
\* input; the PersonalInfo of every Client that reaches analysis satisfies
\* the constraints.
C11_PersonalInfoValidated ==
    /\ pc = "personal_constructed" =>
          /\ DigitCount(kwargs.zipcode) >= 5
          /\ kwargs.household_size >= 1
          /\ kwargs.annual_income >= 0
          /\ built[1].zipcode = FirstDigits(kwargs.zipcode, 5)
          /\ built[1].household_size = kwargs.household_size
          /\ built[1].annual_income = kwargs.annual_income
          /\ error = None
    /\ (pc = "raised" /\ "zipcode" \in DOMAIN kwargs) =>
          /\ \/ DigitCount(kwargs.zipcode) < 5
             \/ kwargs.household_size < 1
             \/ kwargs.annual_income < 0
          /\ built = None
          /\ error # None
          /\ report = None
    /\ ValidPersonal(client.personal)
    /\ ("zipcode" \in DOMAIN kwargs /\ pc \in {"analyze_plans", "scoring", "done"})
          => (built # None /\ client.personal = built[1])

\* C11 witness: PersonalInfo(zipcode="850011234") was built with zipcode
\* "85001", and the analysis of its Client has finished.
C11_Witness ==
    /\ pc = "done"
    /\ "zipcode" \in DOMAIN kwargs
    /\ kwargs.zipcode = <<"8", "5", "0", "0", "1", "1", "2", "3", "4">>
    /\ client.personal.zipcode = <<"8", "5", "0", "0", "1">>
    /\ report # None

(***************************************************************************)
(* Helpers of the ingestion properties                                     *)
(***************************************************************************)
\* What each file of DirPool holds: the plan_id of the one plan a
\* single-file parse of it gives, or None for a file that gives no plan.
ExpectedPlanId(f) ==
    CASE f.stem = "plan_0" -> Some("BATCH000")
      [] f.stem = "plan_1" -> Some("BATCH001")
      [] f.stem = "plan_2" -> Some("BATCH002")
      [] f.stem = "UP" -> Some("UP")
      [] f.stem = "test_plans" -> Some("CSV001")
      [] f.stem = "scan" -> Some("scan")
      [] OTHER -> None

\* The plan_ids expected of a listing, file by file
RECURSIVE ExpectedIds(_)
ExpectedIds(fs) ==
    IF fs = <<>> THEN <<>>
    ELSE (IF ExpectedPlanId(Head(fs)) = None THEN <<>>
          ELSE <<ExpectedPlanId(Head(fs))[1]>>) \o ExpectedIds(Tail(fs))

PlanIds(ps) == [k \in DOMAIN ps |-> ps[k].plan_id]

\* A supported file of DirPool whose parsing fails or yields no plan
FailingFile(f) == f.stem \in {"bad", "comma", "empty", "broken"}

\* C12: parse_batch never raises; each file is parsed once, in the order of
\* the listing; a supported file whose parsing fails (corrupt, unreadable,
\* coercion error, no plan) adds nothing, and the plans of the files that
\* parse are returned.
C12_BatchIsolatesFailures ==
    /\ [](pc \in {"parse_batch", "batch_returned"} =>
            /\ error = None
            /\ PlanIds(parsed) = ExpectedIds(SubSeq(files, 1, i))
            /\ (pc = "batch_returned" => i = Len(files)))
    /\ [][pc = "parse_batch" =>
            \/ /\ i < Len(files)
               /\ i' = i + 1
               /\ pc' = "parse_batch"
               /\ \/ parsed' = parsed
                  \/ /\ Len(parsed') = Len(parsed) + 1
                     /\ SubSeq(parsed', 1, Len(parsed)) = parsed
               /\ FailingFile(files[i + 1]) => parsed' = parsed
            \/ /\ i = Len(files)
               /\ pc' = "batch_returned"
               /\ parsed' = parsed]_vars

\* C12 witness: a batch returned the plans of two files that stand before
\* and after a corrupt JSON file in the listing.
C12_Witness ==
    /\ pc = "batch_returned"
    /\ Len(files) = 3
    /\ files[2].stem = "bad"
    /\ PlanIds(parsed) = <<"BATCH001", "scan">>

\* The spellings of the supported extensions among the explored suffixes
SupportedSpellings ==
    {".pdf", ".PDF", ".docx", ".Docx", ".json", ".JSON", ".csv", ".Csv"}

\* parse_batch over a listing, as the fold of its loop
RECURSIVE BatchAll(_, _)
BatchAll(collected, fs) ==
    IF fs = <<>> THEN collected
    ELSE BatchAll(BatchStep(collected, Head(fs)), Tail(fs))

\* C13: parse_document raises the unsupported-format error, and returns no
\* Plan, exactly for the paths whose extension is not .pdf, .docx, .json or
\* .csv in any letter case; parse_batch does not raise on such files and
\* returns what it returns for the directory without them.
C13_UnsupportedFormat ==
    /\ (pc = "raised" /\ files # <<>>) =>
          /\ files[1].suffix \notin SupportedSpellings
          /\ error = Some("ValueError: Unsupported file format")
          /\ parsed = <<>>
    /\ pc = "document_returned" =>
          /\ files[1].suffix \in SupportedSpellings
          /\ error = None
    /\ pc = "batch_returned" =>
          /\ error = None
          /\ parsed = BatchAll(<<>>, SelectSeq(files,
                          LAMBDA f : f.suffix \in SupportedSpellings))

\* C13 witness: parse_document has raised on a .TXT path.
C13_Witness ==
    /\ pc = "raised"
    /\ Len(files) = 1
    /\ files[1].suffix = ".TXT"
    /\ error = Some("ValueError: Unsupported file format")
    /\ parsed = <<>>

\* C14: parse_document on a readable PDF or DOCX returns a Plan whatever
\* the text, with premium, deductible and out-of-pocket maximum 0 and metal
\* tier SILVER where no pattern matches; it returns None only for a file
\* that cannot be read.
C14_TextExtractionTotal ==
    (pc = "document_returned" /\ Lower(files[1].suffix) \in {".pdf", ".docx"}) =>
        /\ files[1].content.kind = "text" => parsed # None
        /\ parsed = None => files[1].content.kind = "unreadable"
        /\ (parsed # None /\ files[1].stem = "scan"
            /\ \A k \in DOMAIN files[1].content.text :
                  files[1].content.text[k] \in {"lorem", "ipsum", "Individual"})
              => /\ parsed[1].monthly_premium = 0
                 /\ parsed[1].deductible = 0
                 /\ parsed[1].oop_max = 0
                 /\ parsed[1].metal_level = "SILVER"

\* The rows of RowPool every cell of which float() and the plan-type
\* lookup accept
WellFormedRow(row) ==
    row.plan_id.s \in {"CSV001", "CSV002", "CSV007", "GEN0", "GENB"}

\* C15: parse_csv returns, without raising, one Plan for each row whose
\* fields all coerce, in row order, and nothing for the other rows.
C15_CsvSkipsBadRows ==
    pc = "csv_returned" =>
        /\ error = None
        /\ files[1].content.kind = "csv" =>
              LET good == SelectSeq(files[1].content.rows, WellFormedRow)
              IN /\ Len(parsed) = Len(good)
                 /\ \A k \in DOMAIN good :
                       /\ JStr(parsed[k].plan_id) = good[k].plan_id
                       /\ JStr(parsed[k].marketing_name) = good[k].marketing_name
        /\ files[1].content.kind # "csv" => parsed = <<>>

\* C15 witness: parse_csv returned the first and the third row of a file
\* whose second row holds a premium that is no number.
C15_Witness ==
    /\ pc = "csv_returned"
    /\ files[1].content.kind = "csv"
    /\ PlanIds([k \in DOMAIN files[1].content.rows |->
                   [plan_id |-> files[1].content.rows[k].plan_id.s]])
          = <<"CSV001", "CSV003", "CSV002">>
    /\ PlanIds(parsed) = <<"CSV001", "CSV002">>

\* C16: for a CSV file, parse_document returns the plan of the first row
\* only, and parse_batch over a directory holding the file returns a Plan
\* for every well-formed row of it.
C16_CsvRowsInBatch ==
    /\ (pc = "document_returned" /\ files[1].content.kind = "csv"
        /\ Lower(files[1].suffix) = ".csv") =>
          LET good == SelectSeq(files[1].content.rows, WellFormedRow)
          IN IF good = <<>> THEN parsed = None
             ELSE parsed # None /\ JStr(parsed[1].plan_id) = good[1].plan_id
    /\ pc = "batch_returned" =>
          \A k \in DOMAIN files :
              (files[k].content.kind = "csv" /\ Lower(files[k].suffix) = ".csv") =>
                  \A r \in DOMAIN files[k].content.rows :
                      WellFormedRow(files[k].content.rows[r]) =>
                          \E n \in DOMAIN parsed :
                              JStr(parsed[n].plan_id)
                                 = files[k].content.rows[r].plan_id

\* The stems of DirPool in the order of their file names
DirNameOrder ==
    <<"UP", "bad", "broken", "comma", "empty", "notes", "plan_0", "plan_1",
      "plan_2", "scan", "test_plans">>

\* A listing in file-name order
SortedByName(fs) ==
    LET present(stem) == \E k \in DOMAIN fs : fs[k].stem = stem
        stems == SelectSeq(DirNameOrder, present)
    IN [k \in DOMAIN stems |-> CHOOSE f \in {fs[j] : j \in DOMAIN fs} :
                                   f.stem = stems[k]]

\* C17: parse_batch returns one Plan per file that parses, and returns
\* them in file-name order.
C17_BatchInNameOrder ==
    pc = "batch_returned" =>
        PlanIds(parsed) = ExpectedIds(SortedByName(files))

(***************************************************************************)
(* Properties of the renderers                                             *)
(***************************************************************************)
\* C18: generate_scoring_matrix returns one row per entry of
\* report.plan_analyses, in ranked order, and the Rank of the i-th row is
\* i, also when analysed plans have identical field values and scores.
C18_MatrixRanks ==
    pc = "matrix_returned" =>
        LET matrix == rendered[1]
        IN /\ Len(matrix) = Len(report[1].plan_analyses)
           /\ \A k \in DOMAIN matrix :
                 /\ matrix[k].plan_id = report[1].plan_analyses[k].plan.plan_id
                 /\ matrix[k].rank = k

\* C19: on every report of analyze_plans the three renderers complete
\* without raising; the summary names the marketing name of the top
\* recommendation; the JSON export holds one entry per analysed plan.
C19_RenderersComplete ==
    /\ pc \notin {"summary_raised", "csv_raised"}
    /\ pc = "summary_returned" =>
          rendered[1].recommended
             = Some(report[1].top_recommendations[1].plan.marketing_name)
    /\ pc = "csv_written" => Len(rendered[1]) = Len(plans)
    /\ pc = "exported" => Len(export_data[1].plan_analyses) = Len(plans)

(***************************************************************************)
(* Properties of the annual cost estimate                                  *)
(***************************************************************************)
\* The cost of one dose by formulary status
TierRate(coverage) ==
    IF coverage = "TIER1" THEN 10
    ELSE IF coverage = "TIER2" THEN 50
    ELSE IF coverage = "TIER3" THEN 100
    ELSE IF coverage = "TIER4" THEN 300
    ELSE 500

ProgramExists(m) ==
    m.manufacturer_program # None /\ m.manufacturer_program[1].exists

\* A program without an expected copay counts as a copay of 0
DoseCost(m, plan) ==
    IF ProgramExists(m)
    THEN IF m.manufacturer_program[1].expected_copay = None THEN 0
         ELSE m.manufacturer_program[1].expected_copay[1]
    ELSE TierRate(IF m.name \in DOMAIN plan.formulary
                  THEN plan.formulary[m.name] ELSE "NOT")

RECURSIVE SumFirst(_, _)
SumFirst(f, n) == IF n = 0 THEN 0 ELSE f[n] + SumFirst(f, n - 1)

ExpectedTotal(c, plan) ==
    LET meds == c.medical_profile.medications
        provs == c.medical_profile.providers
        primary == {"Primary Care", "Family Medicine", "Internal Medicine"}
    IN 12 * plan.monthly_premium + plan.deductible
       + SumFirst([k \in DOMAIN provs |->
                     provs[k].visit_frequency
                       * (IF provs[k].specialty \in primary
                          THEN plan.cost_sharing.primary_care_copay
                          ELSE plan.cost_sharing.specialist_copay)], Len(provs))
       + SumFirst([k \in DOMAIN meds |->
                     meds[k].annual_doses * DoseCost(meds[k], plan)], Len(meds))
       + 1000

\* C20: the estimated annual cost is min(T, oop_max + 12 * premium) with
\* T = 12 * premium + deductible + visit costs + medication costs + 1000,
\* a medication costing annual_doses times the program copay when a
\* program exists, else annual_doses times 10 / 50 / 100 / 300 for tiers
\* 1-4 and 500 otherwise; it never exceeds oop_max + 12 * premium.
C20_AnnualCost ==
    \A k \in DOMAIN plan_analyses :
        LET a == plan_analyses[k]
            T == ExpectedTotal(client, a.plan)
            cap == a.plan.oop_max + 12 * a.plan.monthly_premium
        IN /\ a.estimated_annual_cost = (IF T <= cap THEN T ELSE cap)
           /\ a.estimated_annual_cost <= cap

\* C20 witness: a report holding a plan estimated below its cap for a
\* client with a tier-4 medication and a medication under a copay
\* program, and a plan estimated at its cap.
C20_Witness ==
    /\ pc = "done"
    /\ \E m \in {client.medical_profile.medications[k] :
                    k \in DOMAIN client.medical_profile.medications} :
          ProgramExists(m)
    /\ \E a \in Analyses :
          /\ \E nm \in DOMAIN a.plan.formulary : a.plan.formulary[nm] = "TIER4"
          /\ a.estimated_annual_cost = ExpectedTotal(client, a.plan)
          /\ a.estimated_annual_cost
                < a.plan.oop_max + 12 * a.plan.monthly_premium
    /\ \E a \in Analyses :
          /\ ExpectedTotal(client, a.plan)
                > a.plan.oop_max + 12 * a.plan.monthly_premium
          /\ a.estimated_annual_cost
                = a.plan.oop_max + 12 * a.plan.monthly_premium

(***************************************************************************)
(* Properties of scoring ingested plans                                    *)
(***************************************************************************)
\* The plans of CopayFiles, whose source states a primary-care copay of 40
\* and a specialist copay of 80
CopayPlanIds == {"COPAYJ", "NESTED", "COPAYC", "scan"}

\* Visit costs at the copays of the source data
SourceVisitCosts(c) ==
    LET provs == c.medical_profile.providers
    IN SumFirst([k \in DOMAIN provs |->
                   provs[k].visit_frequency
                     * (IF provs[k].specialty
                           \in {"Primary Care", "Family Medicine", "Internal Medicine"}
                        THEN 40 ELSE 80)], Len(provs))

\* C21: for a plan from any ingestion path the visit-cost term of the
\* estimated annual cost is the sum over the client's providers of
\* visit_frequency times the primary-care or specialist copay given in the
\* source data.
C21_VisitCostsFromSource ==
    \A k \in DOMAIN plan_analyses :
        LET a == plan_analyses[k]
            premium == 12 * a.plan.monthly_premium
        IN a.plan.plan_id \in CopayPlanIds =>
              /\ VisitCosts(client.medical_profile.providers, a.plan)
                    = SourceVisitCosts(client)
              /\ a.estimated_annual_cost
                    = Min(premium + a.plan.deductible + SourceVisitCosts(client)
                          + MedicationCosts(client.medical_profile.medications,
                                            a.plan) + 1000,
                          a.plan.oop_max + premium)

(***************************************************************************)
(* Properties of the medication and financial-protection scores            *)
(***************************************************************************)
\* The coverage value of one medication under a plan
CoverageValue(m, plan) ==
    LET status == IF m.name \in DOMAIN plan.formulary
                  THEN plan.formulary[m.name] ELSE "NOT"
    IN IF status \in {"COVERED", "TIER1", "TIER2", "TIER3", "TIER4"} THEN 10
       ELSE IF ProgramExists(m) THEN 6 ELSE 0

\* C22: the medication-coverage score is 10 for a client without
\* medications; otherwise it is the mean of the coverage values (10 covered
\* or tiered, 6 not covered with a manufacturer program, 0 otherwise, a
\* medication absent from the formulary counting as not covered), plus 2
\* without common prior authorization, minus 3 with a maximizer program,
\* clamped to [0, 10].
C22_MedicationCoverage ==
    \A k \in DOMAIN plan_analyses :
        LET a == plan_analyses[k]
            meds == client.medical_profile.medications
            n == Len(meds)
            total == SumFirst([j \in DOMAIN meds |->
                                  CoverageValue(meds[j], a.plan)], n)
            \* n times (mean plus adjustments)
            raw == total
                   + (IF a.plan.administrative.prior_auth_common THEN 0 ELSE 2 * n)
                   - (IF a.plan.administrative.uses_maximizer THEN 3 * n ELSE 0)
            x == a.metrics.medication_coverage_score
        IN IF n = 0 THEN x = Ten
           ELSE IF raw <= 0 THEN x = Zero
           ELSE IF raw >= 10 * n THEN x = Ten
           ELSE x.n * n = raw * x.d

\* C22 witness: a report for a client with a covered medication and an
\* uncovered one under a manufacturer program, on a plan with common prior
\* authorization and a maximizer program, scoring (10 + 6)/2 - 3 = 5.
C22_Witness ==
    /\ pc = "done"
    /\ Len(client.medical_profile.medications) = 2
    /\ \E a \in Analyses :
          /\ a.plan.administrative.prior_auth_common
          /\ a.plan.administrative.uses_maximizer
          /\ {CoverageValue(client.medical_profile.medications[j], a.plan) :
                 j \in 1..2} = {6, 10}
          /\ a.metrics.medication_coverage_score = [n |-> 5, d |-> 1]

\* C23: the financial-protection score is 10 when deductible <= 500 and
\* out-of-pocket maximum <= 3000, else 7 when <= 1000 and <= 5000, else 4
\* when <= 2000 and <= 7000, else 0; both bounds of a tier must hold.
C23_FinancialProtection ==
    \A k \in DOMAIN plan_analyses :
        LET a == plan_analyses[k]
            d == a.plan.deductible
            o == a.plan.oop_max
            x == a.metrics.financial_protection_score
        IN /\ x \in {Zero, [n |-> 4, d |-> 1], [n |-> 7, d |-> 1], Ten}
           /\ x = Ten <=> (d <= 500 /\ o <= 3000)
           /\ x = [n |-> 7, d |-> 1] <=>
                 (~(d <= 500 /\ o <= 3000) /\ d <= 1000 /\ o <= 5000)
           /\ x = [n |-> 4, d |-> 1] <=>
                 (~(d <= 1000 /\ o <= 5000) /\ d <= 2000 /\ o <= 7000)
           /\ (d = 2000 /\ o = 8000) => x = Zero

\* C23 witness: a report on a plan with deductible 2000 and out-of-pocket
\* maximum 8000, which meets the deductible bound of the third tier only and
\* scores 0.
C23_Witness ==
    /\ pc = "done"
    /\ \E a \in Analyses :
          /\ a.plan.deductible = 2000
          /\ a.plan.oop_max = 8000
          /\ a.metrics.financial_protection_score = Zero

(***************************************************************************)
(* Properties of the scoring run as a whole                                *)
(***************************************************************************)
\* The client of the run with other priority weights
WithPriorities(pr) == [client EXCEPT !.priorities = pr]

\* The ranking analyze_plans returns for client c on the plans of the run
RankingFor(c) ==
    SortByScoreDesc([k \in DOMAIN plans |-> ScorePlan(c, plans[k], plans, k)])

\* C24: scoring does not depend on the client's Priorities: for a client
\* that differs from the client of the run only in the five priority
\* weights, score_plan yields the same ScoringMetrics and estimated annual
\* cost for every plan, and analyze_plans yields the same ranking.
C24_PrioritiesIgnored ==
    \A pr \in PriorityPool \cup {Priorities} :
        \* the analysis score_plan has just returned
        /\ (pc = "scoring" /\ plan_analyses # <<>>) =>
              LET a == plan_analyses[Len(plan_analyses)]
                  b == ScorePlan(WithPriorities(pr), a.plan, plans, a.plan_ref)
              IN /\ b.metrics = a.metrics
                 /\ b.estimated_annual_cost = a.estimated_annual_cost
        \* the ranked analyses analyze_plans returns
        /\ pc = "done" => plan_analyses = RankingFor(WithPriorities(pr))

\* C24 witness: a finished ranking of two plans with different totals for a
\* client whose weights are not the default ones.
C24_Witness ==
    /\ pc = "done"
    /\ client.priorities \in PriorityPool
    /\ Len(plan_analyses) = 2
    /\ Key(plan_analyses[1]) > Key(plan_analyses[2])
    /\ plan_analyses[1].plan_ref = 2

\* A run started by HealthPlanAnalyzer.analyze
FromAnalyze == plan_sources # <<>> \/ hc_plans # None

\* C25: within one analyze_plans run every plan is scored against the same
\* comparison set, the complete input list, and the list does not change
\* between the first and the last scoring call; in analyze, scoring works on
\* the list loaded from all plan sources.
C25_StableComparisonSet ==
    /\ [](pc \in {"scoring", "done"} =>
            /\ \A k \in DOMAIN plan_analyses :
                  LET a == plan_analyses[k]
                  IN /\ a.plan = plans[a.plan_ref]
                     /\ a.metrics.total_cost_score =
                           ScoreTotalCost(a.estimated_annual_cost, plans, client)
            /\ FromAnalyze => plans = LoadPlans(plan_sources, hc_plans))
    /\ [][(pc \in {"analyze_plans", "scoring"}) => (plans' = plans)]_vars

\* C25 witness: analyze has loaded plans from two sources and the scoring
\* loop is between its first and its last call, the first analysis having a
\* cost score that scoring against the plans seen so far would not give.
C25_Witness ==
    /\ pc = "scoring"
    /\ Len(plan_sources) = 2
    /\ Len(plan_analyses) >= 1
    /\ Len(plan_analyses) < Len(plans)
    /\ plan_analyses[1].metrics.total_cost_score #
          ScoreTotalCost(plan_analyses[1].estimated_annual_cost,
                         SubSeq(plans, 1, 1), client)

(***************************************************************************)
(* Properties of the JSON and CSV conversions                              *)
(***************************************************************************)
\* The value the Plan is to carry for a field with a modern and a legacy
\* name: the legacy value when it is present and the modern value is 0 or
\* absent, the modern value otherwise
GenerationValue(data, modern, legacy) ==
    IF /\ legacy \in DOMAIN data
       /\ (modern \notin DOMAIN data \/ Float(data[modern]) = Some(0))
    THEN Float(data[legacy])
    ELSE Float(Get(data, modern, JNum(0)))

FromBothGenerations(data, plan) ==
    /\ Some(plan.deductible) =
          GenerationValue(data, "deductible", "deductible_individual")
    /\ Some(plan.oop_max) = GenerationValue(data, "oop_max", "oop_max_individual")

\* C26: the Plan made from a JSON object or a CSV row has, as deductible and
\* out-of-pocket maximum, the legacy value whenever the modern value is 0 or
\* absent and the legacy field is present, and the modern value otherwise.
C26_LegacyWhenModernZero ==
    /\ (pc = "document_returned" /\ files[1].content.kind = "json"
        /\ Lower(files[1].suffix) = ".json" /\ parsed # None) =>
          FromBothGenerations(files[1].content.data, parsed[1])
    /\ (pc = "csv_returned" /\ files[1].content.kind = "csv") =>
          \A k \in DOMAIN parsed :
              \A j \in DOMAIN files[1].content.rows :
                  files[1].content.rows[j].plan_id.s = parsed[k].plan_id =>
                      FromBothGenerations(files[1].content.rows[j], parsed[k])

\* The number a numeric field stands for: the number itself, or the number
\* a string spells once its thousands separators are taken out
Coerce(v) ==
    CASE v.t = "num" -> Some(v.v)
      [] v.t = "str" -> ParseFloatStr(StripCommas(v.s))
      [] OTHER -> None

NumericFields ==
    {"monthly_premium", "deductible", "deductible_individual", "oop_max",
     "oop_max_individual", "copay_primary", "copay_specialist"}

\* An object or row each numeric field of which stands for a number (and
\* whose plan type, when given, is a known one)
Coercible(data) ==
    /\ \A f \in NumericFields \cap DOMAIN data : Coerce(data[f]) # None
    /\ "plan_type" \in DOMAIN data => data.plan_type = JStr("hmo")
    /\ "cost_sharing" \notin DOMAIN data

\* C27: on the JSON and CSV paths a numeric field given as a string,
\* a currency string such as "1,500" included, is coerced to its number
\* (1500), and the object or row is not dropped.
C27_CurrencyStringsCoerced ==
    /\ (pc = "document_returned" /\ files[1].content.kind = "json"
        /\ Lower(files[1].suffix) = ".json"
        /\ Coercible(files[1].content.data)) =>
          /\ parsed # None
          /\ Some(parsed[1].monthly_premium) =
                Coerce(Get(files[1].content.data, "monthly_premium", JNum(0)))
    /\ (pc = "csv_returned" /\ files[1].content.kind = "csv") =>
          \A j \in DOMAIN files[1].content.rows :
              LET row == files[1].content.rows[j]
              IN Coercible(row) =>
                    \E k \in DOMAIN parsed :
                        /\ parsed[k].plan_id = row.plan_id.s
                        /\ Some(parsed[k].monthly_premium) =
                              Coerce(Get(row, "monthly_premium", JNum(0)))

(***************************************************************************)
(* Properties of the extraction of fields from text                        *)
(***************************************************************************)
\* Whether a tier keyword occurs in the text or the file name
Mentions(f, metal) ==
    \/ ContainsMetal(f.stem, metal)
    \/ \E k \in DOMAIN f.content.text : ContainsMetal(f.content.text[k], metal)

\* The highest tier mentioned, SILVER when none is
HighestTier(f) ==
    CASE Mentions(f, "platinum") -> "PLATINUM"
      [] Mentions(f, "gold") -> "GOLD"
      [] Mentions(f, "silver") -> "SILVER"
      [] Mentions(f, "bronze") -> "BRONZE"
      [] Mentions(f, "catastrophic") -> "CATASTROPHIC"
      [] OTHER -> "SILVER"

\* C28: the metal tier extracted from a text and a file name is the highest
\* tier whose keyword occurs in either, case-insensitively, in the order
\* platinum > gold > silver > bronze > catastrophic, and SILVER when none
\* occurs; a document mentioning only 'catastrophic' resolves to
\* CATASTROPHIC.  Stated of the tier of the Plan parse_document extracts
\* and of the tier _extract_metal_level returns.
C28_HighestTier ==
    /\ (pc = "document_returned" /\ files[1].content.kind = "text"
        /\ parsed # None) =>
          parsed[1].metal_level = HighestTier(files[1])
    /\ pc = "metal_level_returned" => parsed[1] = HighestTier(files[1])

\* What the patterns for the plan identifier find in a text: the 'Plan ID'
\* label followed by a marketplace identifier or by letters and digits, a
\* marketplace identifier anywhere, and 'ID' followed by six or more digits
TextPlanIds(t) ==
    {m[1] : m \in {SearchPlanIdLabel(t, "marketplace"),
                   SearchPlanIdLabel(t, "alnum"),
                   SearchAmount(t, <<>>, "strict_marketplace", <<>>),
                   SearchAmount(t, <<"id">>, "six_digits", <<>>)} \ {None}}

\* The strings of the model that hold a character that is neither a letter
\* nor a digit (the underscore of a file name)
WithSeparator ==
    {"plan_0", "plan_654321", "plan_bronze", "Gold_Ambetter_2025",
     "a_very_long_plan_document", "a_very_long_plan_doc", "test_plans",
     "modern_zero"}

\* C29: the plan identifier extracted from a text comes from the text
\* patterns ('Plan ID: X' label, marketplace pattern, generic 'ID' with six
\* or more digits) when one matches; it is the run of six or more digits of
\* the file name only when no text pattern matches; it is the sanitized
\* file name (alphanumeric characters only, truncated) only when that
\* fails too; and it is never empty.
C29_PlanIdFallbacks ==
    (pc = "document_returned" /\ files[1].content.kind = "text"
     /\ parsed # None) =>
        LET t == files[1].content.text
            stem == files[1].stem
            id == parsed[1].plan_id
        IN /\ id # ""
           /\ TextPlanIds(t) # {} => id \in TextPlanIds(t)
           /\ (TextPlanIds(t) = {} /\ StemDigits(stem) # None) =>
                 id = StemDigits(stem)[1]
           /\ (TextPlanIds(t) = {} /\ StemDigits(stem) = None) =>
                 id \notin WithSeparator

\* The text matches 'referral ... required/needed'
MentionsReferral(t) ==
    \E j, k \in DOMAIN t :
        /\ j < k
        /\ Lower(t[j]) \in {"referral", "referrals"}
        /\ Lower(t[k]) \in {"required", "needed"}

\* The text contains 'prior auth'
MentionsPriorAuth(t) ==
    \E k \in DOMAIN t :
        /\ k + 1 <= Len(t)
        /\ Lower(t[k]) = "prior"
        /\ Lower(t[k + 1]) \in {"auth", "authorization"}

\* C30: the Plan extracted from a text has its referral-required flag true
\* exactly if the text matches 'referral ... required/needed' and its
\* prior-authorization-common flag true exactly if the text contains
\* 'prior auth'; each flag is driven by its own pattern only.
C30_FlagsFromOwnPattern ==
    (pc = "document_returned" /\ files[1].content.kind = "text"
     /\ parsed # None) =>
        /\ parsed[1].requires_referrals = MentionsReferral(files[1].content.text)
        /\ parsed[1].administrative.prior_auth_common =
              MentionsPriorAuth(files[1].content.text)

====
